---- MODULE Spec2Model ----
(***************************************************************************)
(* Model of the DAB+ receiver core: the per-channel control flags          *)
(* (Basic_DAB_Plus_Controls), the FIC processor (Viterbi passes, FIB CRC   *)
(* check and FIG parser), the depuncturing Viterbi front end, the DAB+     *)
(* channel with its error flags, the MOT segment assembler, the PAD MOT    *)
(* data-group assembler and the threaded channel.  Every definition is     *)
(* translated from the source file named in MODEL_MAP.json.  Bytes are     *)
(* naturals in 0..255, buffers are sequences (index i of the C++ buffer is *)
(* element i+1 of the sequence).                                           *)
(***************************************************************************)
EXTENDS Integers, Sequences, FiniteSets, TLC

VARIABLES
    flags,          \* Basic_DAB_Plus_Controls::flags (uint8_t)
    ctl_hist,       \* the last calls made on the controls, oldest first
    decoded_bytes,  \* FIC_Processor: the descrambled bytes of one FIB group
    fic_pc,         \* "idle" before a group is processed, "done" after
    heap_byte,      \* what a read past the end of decoded_bytes returns
    fic_parsed,     \* indices of the FIBs handed to ProcessFIG, in call order
    fic_out,        \* what each ProcessFIG call did, in call order
    depunctured_symbols, \* DAB_Viterbi_Decoder::depunctured_symbols
    ndebug,         \* the build defines NDEBUG: assert does nothing
    vit_pc,         \* "ready", or "aborted" after a failed assert
    vit_call,       \* the latest call of update (none: the empty sequence)
    encoded_bytes,  \* FIC_Processor::ProcessFIBGroup: the encoded group
    encoded_bits,   \* its bits, one per element
    fd_pc,          \* the position of ProcessFIBGroup in its Viterbi passes
    curr_encoded_bit,
    curr_puncture_bit,
    curr_decoded_bit,
    vitdec_calls,   \* the calls made on vitdec, in order
    chan_pc,        \* Basic_DAB_Plus_Channel::Process: "idle", "cif", "frame"
    cif_i,          \* the loop variable i of Process
    m_aac_audio_decoder, \* << >> for NULL, else the decoder's parameters
    m_super_frame_header, \* << >> before the first header
    m_is_codec_error,
    m_is_firecode_error,
    m_is_rs_error,
    m_is_au_error,
    chan_calls,     \* the latest Process calls and what each did
    chan_out,       \* what the latest step logged or notified
    cif_log,        \* the CIFs the running Process call has decoded
    sf_stage,       \* the frame processor within a superframe
    sf_au,          \* index of the access unit that is next
    sf_crc,         \* a CRC error was raised for that access unit
    sf_errors,      \* the errors raised for the latest superframe
    codec_window,   \* whether DecodeFrame failed since access unit 0 was last decoded
    header_event,  \* the latest OnSuperFrameHeader event
    mot,            \* a MOT_Assembler
    reconstructs,   \* the method that calls ReconstructOrderedBuffer
    mot_total,      \* << N >> once SetTotalSegments(N) was called
    mot_received,   \* the segments given to AddSegment, in arrival order
    mot_checked,    \* what CheckComplete returned, if nothing changed since
    mot_last,  \* the latest call on the assembler and what it returned
    pad_state,      \* PAD_MOT_Processor::state
    pad_data_group, \* PAD_MOT_Processor::data_group
    pad_handed,     \* the data groups handed to the MSC XPAD decoder
    pad_announced,  \* << length >> from SetGroupLength until the hand-over
    pad_since_start,  \* the segments received from the start segment on
    is_running,     \* BasicThreadedChannel::is_running
    is_terminated,
    is_start,
    is_join,
    runner_pc,      \* the position of RunnerThread
    caller_pc,      \* the position of the thread that calls Start, Join, Stop
    thr_frames,     \* Start calls made
    thr_runs,       \* Run calls that have returned
    thr_stop_at,  \* where RunnerThread was when Stop was called
    static_encoded_bits,  \* ProcessFIBGroup: static encoded_bits
    static_decoded_bits,  \* ProcessFIBGroup: static decoded_bits
    static_decoded_bytes, \* ProcessFIBGroup: static decoded_bytes
    fib_is_valid,   \* is_valid of each FIB of each group, as the CRC check finds it
    proc_input,     \* for each FIC_Processor, the group of its encoded input
    proc_pc,        \* its position in ProcessFIBGroup
    proc_i,         \* its loop variable i of the loop over the FIBs
    proc_parsed     \* the FIBs it has handed to ProcessFIG

ctl_vars == <<flags, ctl_hist>>
fic_vars == <<decoded_bytes, heap_byte, fic_pc, fic_parsed, fic_out>>
vit_vars == <<depunctured_symbols, ndebug, vit_pc, vit_call>>
fd_vars == <<encoded_bytes, encoded_bits, fd_pc, curr_encoded_bit,
             curr_puncture_bit, curr_decoded_bit, vitdec_calls>>
chan_vars == <<chan_pc, cif_i, m_aac_audio_decoder, m_super_frame_header,
               m_is_codec_error, m_is_firecode_error, m_is_rs_error,
               m_is_au_error, chan_calls, chan_out, cif_log, sf_stage, sf_au,
               sf_crc, sf_errors, codec_window, header_event>>
mot_vars == <<mot, reconstructs, mot_total, mot_received, mot_checked, mot_last>>
pad_vars == <<pad_state, pad_data_group, pad_handed, pad_announced,
              pad_since_start>>
thr_vars == <<is_running, is_terminated, is_start, is_join, runner_pc,
              caller_pc, thr_frames, thr_runs, thr_stop_at>>
sh_vars == <<static_encoded_bits, static_decoded_bits, static_decoded_bytes,
             fib_is_valid, proc_input, proc_pc, proc_i, proc_parsed>>
vars == <<ctl_vars, fic_vars, vit_vars, fd_vars, chan_vars, mot_vars, pad_vars, thr_vars, sh_vars>>

(***************************************************************************)
(* Bit arithmetic on naturals.                                             *)
(***************************************************************************)
RECURSIVE Pow2(_)
Pow2(n) == IF n = 0 THEN 1 ELSE 2 * Pow2(n - 1)

\* (b & mask) >> lo, for the mask that selects bits lo..hi
Bits(b, hi, lo) == (b \div Pow2(lo)) % Pow2(hi - lo + 1)

RECURSIVE BitAnd(_, _)
BitAnd(a, b) ==
    IF a = 0 \/ b = 0 THEN 0
    ELSE (a % 2) * (b % 2) + 2 * BitAnd(a \div 2, b \div 2)

RECURSIVE BitOr(_, _)
BitOr(a, b) ==
    IF a = 0 THEN b
    ELSE IF b = 0 THEN a
    ELSE (IF a % 2 = 1 \/ b % 2 = 1 THEN 1 ELSE 0) + 2 * BitOr(a \div 2, b \div 2)

RECURSIVE BitXor(_, _)
BitXor(a, b) ==
    IF a = 0 THEN b
    ELSE IF b = 0 THEN a
    ELSE ((a + b) % 2) + 2 * BitXor(a \div 2, b \div 2)

(***************************************************************************)
(* Basic_DAB_Plus_Controls                                                 *)
(***************************************************************************)
CONTROL_FLAG_DECODE_AUDIO == 128
CONTROL_FLAG_DECODE_DATA == 64
CONTROL_FLAG_PLAY_AUDIO == 32
CONTROL_FLAG_ALL_SELECTED == 224

\* flags |= flag, or flags &= ~flag, in a uint8_t
SetFlag_NeverClears(f, flag, state) == BitOr(f, flag)

SetFlag_Assigns(f, flag, state) == IF state THEN flag ELSE 0

SetFlag(f, flag, state) ==
    IF state THEN BitOr(f, flag) ELSE BitAnd(f, 255 - flag)

GetAnyEnabled_Always(f) == TRUE

GetAnyEnabled(f) == f # 0
GetAllEnabled(f) == f = CONTROL_FLAG_ALL_SELECTED
GetIsDecodeAudio(f) == BitAnd(f, CONTROL_FLAG_DECODE_AUDIO) # 0
GetIsDecodeData(f) == BitAnd(f, CONTROL_FLAG_DECODE_DATA) # 0
GetIsPlayAudio(f) == BitAnd(f, CONTROL_FLAG_PLAY_AUDIO) # 0

SetIsDecodeAudio_NoCoupling(f, v) == SetFlag(f, CONTROL_FLAG_DECODE_AUDIO, v)

SetIsDecodeAudio(f, v) ==
    LET f1 == SetFlag(f, CONTROL_FLAG_DECODE_AUDIO, v)
    IN  IF ~v THEN SetFlag(f1, CONTROL_FLAG_PLAY_AUDIO, FALSE) ELSE f1

SetIsDecodeData(f, v) == SetFlag(f, CONTROL_FLAG_DECODE_DATA, v)

SetIsPlayAudio_NoCoupling(f, v) == SetFlag(f, CONTROL_FLAG_PLAY_AUDIO, v)

SetIsPlayAudio(f, v) ==
    LET f1 == SetFlag(f, CONTROL_FLAG_PLAY_AUDIO, v)
    IN  IF v THEN SetFlag(f1, CONTROL_FLAG_DECODE_AUDIO, TRUE) ELSE f1

RunAll(f) == CONTROL_FLAG_ALL_SELECTED
StopAll(f) == 0

\* How many of the latest calls ctl_hist keeps
HistLen == 2

Call(op, arg, before, after) ==
    [op |-> op, arg |-> arg, before |-> before, after |-> after]

Remember(c) ==
    IF Len(ctl_hist) < HistLen THEN Append(ctl_hist, c)
    ELSE Append(Tail(ctl_hist), c)

\* the controls with nothing selected, as StopAll leaves them
CtlInit ==
    /\ flags = StopAll(0)
    /\ ctl_hist = <<>>

CallRunAll ==
    /\ flags' = RunAll(flags)
    /\ ctl_hist' = Remember(Call("RunAll", TRUE, flags, flags'))

CallStopAll ==
    /\ flags' = StopAll(flags)
    /\ ctl_hist' = Remember(Call("StopAll", FALSE, flags, flags'))

CallSetIsDecodeAudio(v) ==
    /\ flags' = SetIsDecodeAudio(flags, v)
    /\ ctl_hist' = Remember(Call("SetIsDecodeAudio", v, flags, flags'))

CallSetIsDecodeData(v) ==
    /\ flags' = SetIsDecodeData(flags, v)
    /\ ctl_hist' = Remember(Call("SetIsDecodeData", v, flags, flags'))

CallSetIsPlayAudio(v) ==
    /\ flags' = SetIsPlayAudio(flags, v)
    /\ ctl_hist' = Remember(Call("SetIsPlayAudio", v, flags, flags'))

(***************************************************************************)
(* FIC_Processor: buffers, log output, CRC                                 *)
(***************************************************************************)
\* buf[i] for a 0-based index into the decoded_bytes allocation; a read
\* past its end is undefined behaviour and yields whatever heap_byte is
Rd(mem, i) == IF i < Len(mem) THEN mem[i + 1] ELSE heap_byte

\* LOG_MESSAGE (kind "msg") and LOG_ERROR (kind "err") calls; fig names the
\* function that logs, vals are the decoded values it prints (cif_index,
\* which only labels the line, is left out)
Ev(kind, fig, vals) == [kind |-> kind, fig |-> fig, vals |-> vals]
Msg(fig, vals) == Ev("msg", fig, vals)
Err(fig, vals) == Ev("err", fig, vals)

crc16_poly == 4129
crc16_init == 65535
crc16_final_xor == 0
crc16_rx_invert == 65535

(***************************************************************************)
(* Loops.  A while or for loop of the source is a step operator X_Step     *)
(* that takes the loop state before one evaluation of the loop condition   *)
(* and body and yields the state after it; Iterate applies the step until  *)
(* the loop has ended.  at is the loop's byte or element index, k counts   *)
(* the iterations made, acc is what the loop has produced so far, run is   *)
(* FALSE once the loop has ended and ok is FALSE when it ended by a return *)
(* out of the enclosing function.                                          *)
(***************************************************************************)
\* no loop of the FIC processor makes more iterations than this
LoopBound == 256

LoopState(at, acc) ==
    [at |-> at, k |-> 0, acc |-> acc, run |-> TRUE, ok |-> TRUE]

\* the body ran to its end: next index, one more iteration
LoopNext(s, at, acc) == [s EXCEPT !.at = at, !.k = @ + 1, !.acc = acc]

\* the loop condition was false, or the body left the loop
LoopEnd(s, acc) == [s EXCEPT !.acc = acc, !.run = FALSE]

\* the body returned from the function
LoopReturn(s, acc) == [s EXCEPT !.acc = acc, !.run = FALSE, !.ok = FALSE]

\* the step of loop ctx.loop, defined after the loop bodies
RECURSIVE LoopStep(_, _)

\* the state after at most n more steps of the loop; the steps are split
\* in two halves so that the evaluation stays shallow
RECURSIVE Iterate(_, _, _)
Iterate(ctx, s, n) ==
    IF ~s.run \/ n = 0 THEN s
    ELSE IF n = 1 THEN LoopStep(ctx, s)
    ELSE LET m == Iterate(ctx, s, n \div 2)
         IN  IF ~m.run THEN m ELSE Iterate(ctx, m, n - n \div 2)

\* the loop run from its initial state to its end
RunLoop(ctx, at, acc) == Iterate(ctx, LoopState(at, acc), LoopBound)

\* one entry of CRC::Table: the byte pushed through 8 shifts of the
\* unreflected 16-bit register
RECURSIVE CRC_TableShift(_, _)
CRC_TableShift(r, n) ==
    IF n = 0 THEN r
    ELSE IF r >= 32768
    THEN CRC_TableShift(BitXor((2 * r) % 65536, crc16_poly), n - 1)
    ELSE CRC_TableShift((2 * r) % 65536, n - 1)

crc16_table == [b \in 0..255 |-> CRC_TableShift(b * 256, 8)]

\* CRC::Calculate(buf, size, table): unreflected, table driven; one byte
\* of the buffer goes into the register s.acc
CRC_Step(mem, at, size, s) ==
    IF s.at >= size THEN LoopEnd(s, s.acc)
    ELSE LET crc == s.acc
         IN  LoopNext(s, s.at + 1,
                BitXor((crc * 256) % 65536,
                       crc16_table[BitXor(crc \div 256, Rd(mem, at + s.at))]))

CRC_Update(mem, at, size) ==
    RunLoop([loop |-> "CRC", mem |-> mem, buf |-> at, N |-> size],
            0, crc16_init).acc

CRC_Calculate(mem, at, size) ==
    BitXor(CRC_Update(mem, at, size), crc16_final_xor)

(***************************************************************************)
(* Identifiers                                                             *)
(***************************************************************************)
\* ServiceIdentifier: <<country_id, service_reference, ecc>>; the long
\* form's 20-bit reference is kept as a number (below 2^20)
ServiceIdentifier_ProcessShortForm(mem, b) ==
    << Bits(Rd(mem, b), 7, 4),
       Bits(Rd(mem, b), 3, 0) * 256 + Rd(mem, b + 1),
       0 >>

\* the reference cut to its low 16 bits
ServiceIdentifier_ProcessLongForm_16Bit(mem, b) ==
    << Bits(Rd(mem, b + 1), 7, 4),
       Rd(mem, b + 2) * 256 + Rd(mem, b + 3),
       Rd(mem, b) >>

ServiceIdentifier_ProcessLongForm(mem, b) ==
    << Bits(Rd(mem, b + 1), 7, 4),
       Bits(Rd(mem, b + 1), 3, 0) * 65536 + Rd(mem, b + 2) * 256 + Rd(mem, b + 3),
       Rd(mem, b) >>

ServiceIdentifier(mem, b, pd) ==
    IF pd = 0 THEN ServiceIdentifier_ProcessShortForm(mem, b)
    ELSE ServiceIdentifier_ProcessLongForm(mem, b)

\* EnsembleIdentifier: <<country_id, ensemble_reference>>
EnsembleIdentifier_SwappedNibbles(mem, buf) ==
    << Bits(Rd(mem, buf), 3, 0),
       Bits(Rd(mem, buf), 7, 4) * 256 + Rd(mem, buf + 1) >>

EnsembleIdentifier_ProcessBuffer(mem, buf) ==
    << Bits(Rd(mem, buf), 7, 4),
       Bits(Rd(mem, buf), 3, 0) * 256 + Rd(mem, buf + 1) >>

EnsembleIdentifier_ProcessU16(data) ==
    << Bits(data, 15, 12), Bits(data, 11, 0) >>

(***************************************************************************)
(* FIG 0 extension handlers.  Each takes the buffer, the 0-based offset of *)
(* its field, the field length N (a uint8_t) and the pd flag of the FIG    *)
(* header, and yields the lines it logs, in order.                         *)
(***************************************************************************)
ProcessFIG_Type_0_Ext_0(mem, buf, N, pd) ==
    LET nb_field_bytes == 4
    IN  IF N # nb_field_bytes THEN << Err("0/0", << nb_field_bytes, N >>) >>
        ELSE LET eid == EnsembleIdentifier_ProcessBuffer(mem, buf)
                 change_flags == Bits(Rd(mem, buf + 2), 7, 6)
                 alarm_flag == Bits(Rd(mem, buf + 2), 5, 5)
                 cif_upper == Bits(Rd(mem, buf + 2), 4, 0)
                 cif_lower == Rd(mem, buf + 3)
             IN  << Msg("0/0", << eid[1], eid[2], change_flags, alarm_flag,
                                  cif_upper, cif_lower >>) >>

ProcessFIG_Type_0_Ext_7(mem, buf, N, pd) ==
    LET nb_data_bytes == 2
    IN  IF N # nb_data_bytes THEN << Err("0/7", << N, nb_data_bytes >>) >>
        ELSE << Msg("0/7", << Bits(Rd(mem, buf), 7, 2),
                              Bits(Rd(mem, buf), 1, 0) * 256 + Rd(mem, buf + 1) >>) >>

ProcessFIG_Type_0_Ext_10(mem, buf, N, pd) ==
    LET nb_min_bytes == 4
    IN  IF nb_min_bytes > N THEN << Err("0/10", << nb_min_bytes, N >>) >>
        ELSE
        LET rfu0 == Bits(Rd(mem, buf), 7, 7)
            MJD == BitOr(Bits(Rd(mem, buf), 6, 0) * 1024,
                   BitOr(Rd(mem, buf + 1) * 4,
                         BitAnd(Rd(mem, buf + 2), 192)))
            LSI == Bits(Rd(mem, buf + 2), 5, 5)
            Rfa0 == Bits(Rd(mem, buf + 2), 4, 4)
            UTC == Bits(Rd(mem, buf + 2), 3, 3)
            nb_actual_bytes == IF UTC # 0 THEN 6 ELSE 4
        IN  IF nb_actual_bytes > N THEN << Err("0/10", << nb_actual_bytes, N >>) >>
            ELSE
            LET hours == BitOr((Bits(Rd(mem, buf + 2), 2, 0) * 4) % 256,
                               Bits(Rd(mem, buf + 3), 7, 6))
                minutes == Bits(Rd(mem, buf + 3), 5, 0)
                seconds == IF UTC # 0 THEN Bits(Rd(mem, buf + 4), 7, 2) ELSE 0
                milliseconds ==
                    IF UTC # 0
                    THEN Bits(Rd(mem, buf + 4), 1, 0) * 256 + Rd(mem, buf + 5)
                    ELSE 0
            IN  << Msg("0/10", << rfu0, MJD, LSI, Rfa0, UTC,
                                  hours, minutes, seconds, milliseconds >>) >>

\* one line per byte of the field
ProcessFIG_Type_0_Ext_14(mem, buf, N, pd) ==
    [k \in 1..N |->
        Msg("0/14", << Bits(Rd(mem, buf + k - 1), 7, 2),
                       Bits(Rd(mem, buf + k - 1), 1, 0) >>)]

\* component i of FIG 0/3, at offset b
Ext_3_Component(mem, b) ==
    Msg("0/3", << Rd(mem, b) * 16 + Bits(Rd(mem, b + 1), 7, 4),
                  Bits(Rd(mem, b + 1), 3, 1),
                  Bits(Rd(mem, b + 1), 0, 0),
                  Bits(Rd(mem, b + 2), 7, 7),
                  Bits(Rd(mem, b + 2), 6, 6),
                  Bits(Rd(mem, b + 2), 5, 0),
                  Bits(Rd(mem, b + 3), 7, 2),
                  Bits(Rd(mem, b + 3), 1, 0) * 256 + Rd(mem, b + 4),
                  Rd(mem, b + 5) * 256 + Rd(mem, b + 6) >>)

ProcessFIG_Type_0_Ext_3(mem, buf, N, pd) ==
    LET nb_component_bytes == 7
    IN  IF N % nb_component_bytes # 0 THEN << Err("0/3", << nb_component_bytes >>) >>
        ELSE LET nb_components == N \div nb_component_bytes
             IN  [k \in 1..nb_components |->
                    Ext_3_Component(mem, buf + (k - 1) * nb_component_bytes)]

\* component i of FIG 0/4, at offset b
Ext_4_Component(mem, b) ==
    Msg("0/4", << Bits(Rd(mem, b), 7, 7),
                  Bits(Rd(mem, b), 6, 6),
                  Bits(Rd(mem, b), 5, 0),
                  Rd(mem, b + 1) * 256 + Rd(mem, b + 2) >>)

ProcessFIG_Type_0_Ext_4(mem, buf, N, pd) ==
    LET nb_component_bytes == 3
    IN  IF N % nb_component_bytes # 0 THEN << Err("0/4", << nb_component_bytes >>) >>
        ELSE LET nb_components == N \div nb_component_bytes
             IN  [k \in 1..nb_components |->
                    Ext_4_Component(mem, buf + (k - 1) * nb_component_bytes)]

Ext_1_Step(mem, buf, N, s) ==
    LET curr_byte == s.at
    IN  IF curr_byte >= N THEN LoopEnd(s, s.acc)
    ELSE
    LET data == buf + curr_byte
        nb_remain == (N - curr_byte) % 256
    IN  IF nb_remain < 3 THEN LoopEnd(s, s.acc \o << Err("0/1", << curr_byte >>) >>)
        ELSE
        LET subchannel_id == Bits(Rd(mem, data), 7, 2)
            start_address == Bits(Rd(mem, data), 1, 0) * 256 + Rd(mem, data + 1)
            is_long_form == Bits(Rd(mem, data + 2), 7, 7)
            nb_data_bytes == IF is_long_form # 0 THEN 4 ELSE 3
        IN  IF nb_data_bytes > nb_remain
            THEN LoopEnd(s, s.acc \o << Err("0/1", << >>) >>)
            ELSE
            LET line ==
                    IF is_long_form = 0
                    THEN Msg("0/1", << subchannel_id, start_address, is_long_form,
                                       Bits(Rd(mem, data + 2), 6, 6),
                                       Bits(Rd(mem, data + 2), 5, 0) >>)
                    ELSE Msg("0/1", << subchannel_id, start_address, is_long_form,
                                       Bits(Rd(mem, data + 2), 6, 4),
                                       Bits(Rd(mem, data + 2), 3, 2),
                                       Bits(Rd(mem, data + 2), 1, 0) * 256
                                           + Rd(mem, data + 3) >>)
            IN  LoopNext(s, curr_byte + nb_data_bytes, s.acc \o << line >>)

ProcessFIG_Type_0_Ext_1(mem, buf, N, pd) ==
    RunLoop([loop |-> "Ext_1", mem |-> mem, buf |-> buf, N |-> N], 0, << >>).acc

\* the components of one service of FIG 0/2; a reserved tmid makes the
\* handler return
Ext_2_Components_Step(mem, components_buf, sid, nb_service_components, s) ==
    LET i == s.at
    IN  IF i >= nb_service_components THEN LoopEnd(s, s.acc)
    ELSE
    LET b0 == Rd(mem, components_buf + i * 2)
        b1 == Rd(mem, components_buf + i * 2 + 1)
        tmid == Bits(b0, 7, 6)
    IN  IF tmid = 2 THEN LoopReturn(s, s.acc \o << Err("0/2", << tmid >>) >>)
        ELSE
        LET line ==
                IF tmid = 3
                THEN Msg("0/2", sid \o << i, tmid,
                                   Bits(b0, 5, 0) * 64 + Bits(b1, 7, 2),
                                   Bits(b1, 1, 1), Bits(b1, 0, 0) >>)
                ELSE Msg("0/2", sid \o << i, tmid, Bits(b0, 5, 0),
                                   Bits(b1, 7, 2), Bits(b1, 1, 1), Bits(b1, 0, 0) >>)
        IN  LoopNext(s, i + 1, s.acc \o << line >>)

Ext_2_Step(mem, buf, N, pd, s) ==
    LET curr_index == s.at
    IN  IF curr_index >= N THEN LoopEnd(s, s.acc)
    ELSE
    LET nb_service_id_bytes == IF pd # 0 THEN 4 ELSE 2
        nb_header_bytes == nb_service_id_bytes + 1
        service_buf == buf + curr_index
        nb_remain_bytes == N - curr_index
    IN  IF nb_header_bytes > nb_remain_bytes
        THEN LoopEnd(s, s.acc \o << Err("0/2", << >>) >>)
        ELSE
        LET sid == ServiceIdentifier(mem, service_buf, pd)
            descriptor == Rd(mem, service_buf + nb_service_id_bytes)
            nb_service_components == Bits(descriptor, 3, 0)
            nb_length_bytes == 2 * nb_service_components + nb_header_bytes
        IN  IF nb_length_bytes > nb_remain_bytes
            THEN LoopEnd(s, s.acc \o
                     << Err("0/2", << nb_length_bytes, nb_remain_bytes >>) >>)
            ELSE
            LET comps == RunLoop([loop |-> "Ext_2_Components", mem |-> mem,
                                  components_buf |-> service_buf + nb_header_bytes,
                                  sid |-> sid,
                                  nb_service_components |-> nb_service_components],
                                 0, << >>)
            IN  IF ~comps.ok THEN LoopReturn(s, s.acc \o comps.acc)
                ELSE LoopNext(s, curr_index + nb_length_bytes, s.acc \o comps.acc)

ProcessFIG_Type_0_Ext_2(mem, buf, N, pd) ==
    RunLoop([loop |-> "Ext_2", mem |-> mem, buf |-> buf, N |-> N, pd |-> pd],
            0, << >>).acc

Ext_8_Step(mem, buf, N, pd, s) ==
    LET curr_index == s.at
    IN  IF curr_index >= N THEN LoopEnd(s, s.acc)
    ELSE
    LET nb_service_id_bytes == IF pd # 0 THEN 4 ELSE 2
        nb_header_bytes == nb_service_id_bytes + 1
        service_buf == buf + curr_index
        nb_remain_bytes == N - curr_index
    IN  IF (nb_header_bytes + 1) > nb_remain_bytes
        THEN LoopEnd(s, s.acc \o << Err("0/8", << nb_remain_bytes >>) >>)
        ELSE
        LET sid == ServiceIdentifier(mem, service_buf, pd)
            descriptor == Rd(mem, service_buf + nb_service_id_bytes)
            ext_flag == Bits(descriptor, 7, 7)
            rfa0 == Bits(descriptor, 6, 4)
            SCIdS == Bits(descriptor, 3, 0)
            data_buf == service_buf + nb_service_id_bytes + 1
            ls_flag == Bits(Rd(mem, data_buf), 7, 7)
            nb_data_bytes == IF ls_flag # 0 THEN 2 ELSE 1
            nb_rfa_byte == IF ext_flag # 0 THEN 1 ELSE 0
            nb_length_bytes == (nb_header_bytes + nb_data_bytes + nb_rfa_byte) % 256
        IN  IF nb_length_bytes > nb_remain_bytes
            THEN LoopEnd(s, s.acc \o
                     << Err("0/8", << nb_length_bytes, nb_remain_bytes >>) >>)
            ELSE
            LET rfa2 == IF ext_flag # 0 THEN Rd(mem, data_buf + nb_data_bytes - 1)
                        ELSE 0
                line ==
                    IF ls_flag = 0
                    THEN Msg("0/8", sid \o << ext_flag, rfa0, SCIdS, ls_flag,
                                Bits(Rd(mem, data_buf), 6, 6),
                                Bits(Rd(mem, data_buf), 5, 0), rfa2 >>)
                    ELSE Msg("0/8", sid \o << ext_flag, rfa0, SCIdS, ls_flag,
                                Bits(Rd(mem, data_buf), 6, 4),
                                Bits(Rd(mem, data_buf), 3, 0) * 256
                                    + Rd(mem, data_buf + 1), rfa2 >>)
            IN  LoopNext(s, curr_index + nb_length_bytes, s.acc \o << line >>)

ProcessFIG_Type_0_Ext_8(mem, buf, N, pd) ==
    RunLoop([loop |-> "Ext_8", mem |-> mem, buf |-> buf, N |-> N, pd |-> pd],
            0, << >>).acc

\* the user applications of one block of FIG 0/13; s.at is
\* curr_apps_buf_index, s.k is i
Ext_13_Apps_Step(mem, apps_buf, sid_vals, nb_user_apps, nb_remain_bytes, s) ==
    LET i == s.k
        curr_apps_buf_index == s.at
    IN  IF i >= nb_user_apps THEN LoopEnd(s, s.acc)
    ELSE
    LET app_buf == apps_buf + curr_apps_buf_index
        nb_app_header_bytes == 2
        nb_app_remain_bytes == nb_remain_bytes - curr_apps_buf_index
    IN  IF nb_app_header_bytes > nb_app_remain_bytes
        THEN LoopReturn(s, s.acc \o
                 << Err("0/13", << nb_app_header_bytes, nb_app_remain_bytes >>) >>)
        ELSE
        LET user_app_type == Rd(mem, app_buf) * 8 + Bits(Rd(mem, app_buf + 1), 7, 5)
            nb_app_data_bytes == Bits(Rd(mem, app_buf + 1), 4, 0)
            nb_app_total_bytes == (nb_app_header_bytes + nb_app_data_bytes) % 256
        IN  IF nb_app_total_bytes > nb_app_remain_bytes
            THEN LoopReturn(s, s.acc \o
                     << Err("0/13", << nb_app_total_bytes, nb_app_remain_bytes >>) >>)
            ELSE LoopNext(s, curr_apps_buf_index + nb_app_total_bytes,
                     s.acc \o << Msg("0/13", sid_vals \o << i, nb_user_apps,
                                        user_app_type, nb_app_data_bytes >>) >>)

Ext_13_Step(mem, buf, N, pd, s) ==
    LET curr_index == s.at
    IN  IF curr_index >= N THEN LoopEnd(s, s.acc)
    ELSE
    LET nb_service_id_bytes == IF pd # 0 THEN 4 ELSE 2
        nb_header_bytes == nb_service_id_bytes + 1
        nb_remain_bytes == N - curr_index
        entity_buf == buf + curr_index
    IN  IF nb_header_bytes > nb_remain_bytes
        THEN LoopEnd(s, s.acc \o << Err("0/13", << nb_remain_bytes >>) >>)
        ELSE
        LET sid == ServiceIdentifier(mem, entity_buf, pd)
            descriptor == Rd(mem, entity_buf + nb_service_id_bytes)
            SCIdS == Bits(descriptor, 7, 4)
            nb_user_apps == Bits(descriptor, 3, 0)
            apps == RunLoop([loop |-> "Ext_13_Apps", mem |-> mem,
                             apps_buf |-> entity_buf + nb_header_bytes,
                             sid_vals |-> sid \o << SCIdS >>,
                             nb_user_apps |-> nb_user_apps,
                             nb_remain_bytes |-> nb_remain_bytes],
                            0, << >>)
        IN  IF ~apps.ok THEN LoopReturn(s, s.acc \o apps.acc)
            ELSE LoopNext(s, curr_index + apps.at + nb_header_bytes,
                          s.acc \o apps.acc)

ProcessFIG_Type_0_Ext_13(mem, buf, N, pd) ==
    RunLoop([loop |-> "Ext_13", mem |-> mem, buf |-> buf, N |-> N, pd |-> pd],
            0, << >>).acc

\* id i of the id list of one FIG 0/6 entry; a 32-bit id is logged as its
\* two 16-bit halves
Ext_6_Id(mem, list_buf, head, arrangement, i) ==
    IF arrangement = 1
    THEN LET e == list_buf + i * 2
         IN  Msg("0/6", head \o << 1, i, Rd(mem, e) * 256 + Rd(mem, e + 1) >>)
    ELSE IF arrangement = 2
    THEN LET e == list_buf + i * 3
         IN  Msg("0/6", head \o << 2, i, Rd(mem, e),
                        Rd(mem, e + 1) * 256 + Rd(mem, e + 2) >>)
    ELSE LET e == list_buf + i * 4
         IN  Msg("0/6", head \o << 3, i,
                        Rd(mem, e) * 256 + Rd(mem, e + 1),
                        Rd(mem, e + 2) * 256 + Rd(mem, e + 3) >>)

Ext_6_Ids(mem, list_buf, head, arrangement, nb_ids) ==
    [k \in 1..nb_ids |-> Ext_6_Id(mem, list_buf, head, arrangement, k - 1)]

Ext_6_Step(mem, buf, N, pd, s) ==
    LET curr_byte == s.at
    IN  IF curr_byte >= N THEN LoopEnd(s, s.acc)
    ELSE
    LET nb_header_bytes == 2
        nb_remain_bytes == N - curr_byte
    IN  IF nb_remain_bytes < nb_header_bytes
        THEN LoopEnd(s, s.acc \o
                 << Err("0/6", << nb_header_bytes, nb_remain_bytes >>) >>)
        ELSE
        LET b == buf + curr_byte
            id_list_flag == Bits(Rd(mem, b), 7, 7)
            LA == Bits(Rd(mem, b), 6, 6)
            SH == Bits(Rd(mem, b), 5, 5)
            ILS == Bits(Rd(mem, b), 4, 4)
            LSN == Bits(Rd(mem, b), 3, 0) * 256 + Rd(mem, b + 1)
            head == << pd, id_list_flag, LA, SH, ILS, LSN >>
        IN  IF id_list_flag = 0
            THEN LoopNext(s, curr_byte + nb_header_bytes,
                          s.acc \o << Msg("0/6", head) >>)
            ELSE
            LET nb_total_header_bytes == nb_header_bytes + 1
            IN  IF nb_remain_bytes < nb_total_header_bytes
                THEN LoopEnd(s, s.acc \o
                         << Err("0/6", << nb_header_bytes + 1, nb_remain_bytes >>) >>)
                ELSE
                LET rfu0 == Bits(Rd(mem, b + 2), 7, 7)
                    IdLQ == Bits(Rd(mem, b + 2), 6, 5)
                    Rfa0 == Bits(Rd(mem, b + 2), 4, 4)
                    nb_ids == Bits(Rd(mem, b + 2), 3, 0)
                    nb_list_remain == nb_remain_bytes - nb_total_header_bytes
                    arrangement == IF pd = 0 /\ ILS = 0 THEN 1
                                   ELSE IF pd = 0 /\ ILS # 0 THEN 2 ELSE 3
                    nb_entry_bytes == arrangement + 1
                    nb_list_bytes == nb_entry_bytes * nb_ids
                IN  IF nb_list_remain <= 0
                    THEN LoopEnd(s, s.acc \o << Err("0/6", << >>) >>)
                    ELSE IF nb_list_bytes > nb_list_remain
                    THEN LoopEnd(s, s.acc \o
                             << Err("0/6", << arrangement, nb_list_bytes,
                                              nb_list_remain >>) >>)
                    ELSE LoopNext(s,
                             curr_byte + nb_total_header_bytes + nb_list_bytes,
                             s.acc \o Ext_6_Ids(mem, b + 3,
                                          head \o << rfu0, IdLQ, Rfa0 >>,
                                          arrangement, nb_ids))

ProcessFIG_Type_0_Ext_6(mem, buf, N, pd) ==
    RunLoop([loop |-> "Ext_6", mem |-> mem, buf |-> buf, N |-> N, pd |-> pd],
            0, << >>).acc

Ext_9_Services(mem, service_ids_buf, head, nb_services) ==
    [k \in 1..nb_services |->
        Msg("0/9", head \o << k - 1, nb_services,
               Rd(mem, service_ids_buf + (k - 1) * 2) * 256
                   + Rd(mem, service_ids_buf + (k - 1) * 2 + 1) >>)]

\* the subfields of the extended field; s.k is curr_subfield
Ext_9_Step(mem, extended_buf, nb_ext_bytes, head, s) ==
    LET curr_byte == s.at
        curr_subfield == s.k
    IN  IF curr_byte >= nb_ext_bytes THEN LoopEnd(s, s.acc)
    ELSE
    LET nb_subfield_header_bytes == 2
        nb_ext_remain_bytes == nb_ext_bytes - curr_byte
    IN  IF nb_subfield_header_bytes > nb_ext_remain_bytes
        THEN LoopEnd(s, s.acc \o
                 << Err("0/9", << nb_subfield_header_bytes, nb_ext_remain_bytes >>) >>)
        ELSE
        LET subfield_buf == extended_buf + curr_byte
            nb_services == Bits(Rd(mem, subfield_buf), 7, 6)
            Rfa2 == Bits(Rd(mem, subfield_buf), 5, 0)
            ECC == Rd(mem, subfield_buf + 1)
            nb_remain_list_bytes == nb_ext_remain_bytes - nb_subfield_header_bytes
            nb_list_bytes == nb_services * 2
        IN  IF nb_list_bytes > nb_remain_list_bytes
            THEN LoopEnd(s, s.acc \o
                     << Err("0/9", << nb_list_bytes, nb_remain_list_bytes >>) >>)
            ELSE LoopNext(s, curr_byte + nb_subfield_header_bytes + nb_list_bytes,
                     s.acc \o Ext_9_Services(mem,
                                  subfield_buf + nb_subfield_header_bytes,
                                  head \o << Rfa2, ECC, curr_subfield >>,
                                  nb_services))

ProcessFIG_Type_0_Ext_9(mem, buf, N, pd) ==
    LET nb_header_bytes == 3
    IN  IF nb_header_bytes > N THEN << Err("0/9", << nb_header_bytes, N >>) >>
        ELSE
        LET ext_flag == Bits(Rd(mem, buf), 7, 7)
            Rfa1 == Bits(Rd(mem, buf), 6, 6)
            ensemble_lto == Bits(Rd(mem, buf), 5, 0)
            ensemble_ecc == Rd(mem, buf + 1)
            inter_table_id == Rd(mem, buf + 2)
            nb_ext_bytes == N - nb_header_bytes
            head == << ext_flag, Rfa1, ensemble_lto, ensemble_ecc, inter_table_id >>
        IN  IF ext_flag # 0 /\ nb_ext_bytes <= 0 THEN << Err("0/9", << nb_ext_bytes >>) >>
            ELSE IF ext_flag = 0 /\ nb_ext_bytes > 0
            THEN << Err("0/9", << nb_ext_bytes >>) >>
            ELSE IF ext_flag = 0 THEN << Msg("0/9", head) >>
            ELSE RunLoop([loop |-> "Ext_9", mem |-> mem,
                          extended_buf |-> buf + nb_header_bytes,
                          nb_ext_bytes |-> nb_ext_bytes, head |-> head],
                         0, << >>).acc

\* s.k is curr_programme
Ext_17_Step(mem, buf, N, pd, s) ==
    LET curr_byte == s.at
        curr_programme == s.k
    IN  IF curr_byte >= N THEN LoopEnd(s, s.acc)
    ELSE
    LET nb_min_bytes == 4
        b == buf + curr_byte
        nb_remain_bytes == N - curr_byte
    IN  IF nb_remain_bytes < nb_min_bytes
        THEN LoopEnd(s, s.acc \o
                 << Err("0/17", << nb_min_bytes, nb_remain_bytes >>) >>)
        ELSE
        LET sid == ServiceIdentifier_ProcessShortForm(mem, b)
            SD == Bits(Rd(mem, b + 2), 7, 7)
            language_flag == Bits(Rd(mem, b + 2), 5, 5)
            cc_flag == Bits(Rd(mem, b + 2), 4, 4)
            nb_bytes == nb_min_bytes + language_flag + cc_flag
        IN  IF nb_remain_bytes < nb_bytes
            THEN LoopEnd(s, s.acc \o
                     << Err("0/17", << language_flag, cc_flag, nb_bytes,
                                       nb_remain_bytes >>) >>)
            ELSE
            LET language_type == IF language_flag # 0 THEN Rd(mem, b + 3) ELSE 0
                cc_type == IF cc_flag # 0 THEN Rd(mem, b + 3 + language_flag) ELSE 0
                international_code ==
                    Bits(Rd(mem, b + 3 + language_flag + cc_flag), 4, 0)
            IN  LoopNext(s, curr_byte + nb_bytes,
                    s.acc \o << Msg("0/17", << pd >> \o sid \o
                        << curr_programme, SD, language_flag, cc_flag,
                           international_code, language_type, cc_type >>) >>)

ProcessFIG_Type_0_Ext_17(mem, buf, N, pd) ==
    RunLoop([loop |-> "Ext_17", mem |-> mem, buf |-> buf, N |-> N, pd |-> pd],
            0, << >>).acc

\* entry i of one frequency list of FIG 0/21; frequencies are logged as
\* the raw field (the source prints them converted to MHz)
Ext_21_Entry(mem, freq_list_buf, head, RM, nb_entries, i) ==
    IF RM = 0
    THEN LET b == freq_list_buf + i * 3
         IN  Msg("0/21", head \o << i, nb_entries, Bits(Rd(mem, b), 7, 3),
                    Bits(Rd(mem, b), 2, 0) * 65536
                        + Rd(mem, b + 1) * 256 + Rd(mem, b + 2) >>)
    ELSE IF RM = 8
    THEN Msg("0/21", head \o << i, nb_entries, Rd(mem, freq_list_buf + i) >>)
    ELSE LET b == freq_list_buf + i * 3
         IN  Msg("0/21", head \o << i, nb_entries, Rd(mem, b),
                    Rd(mem, b + 1) * 256 + Rd(mem, b + 2) >>)

Ext_21_Entries(mem, freq_list_buf, head, RM, nb_entries) ==
    [k \in 1..nb_entries |->
        Ext_21_Entry(mem, freq_list_buf, head, RM, nb_entries, k - 1)]

\* the frequency information lists of one block; s.at is curr_fi_byte,
\* s.k is curr_fi_list
Ext_21_Lists_Step(mem, fi_lists_buf, nb_fi_list_bytes, Rfa0, curr_block, s) ==
    LET curr_fi_byte == s.at
        curr_fi_list == s.k
    IN  IF curr_fi_byte >= nb_fi_list_bytes THEN LoopEnd(s, s.acc)
    ELSE
    LET nb_fi_list_header_bytes == 3
        nb_fi_remain_bytes == nb_fi_list_bytes - curr_fi_byte
    IN  IF nb_fi_list_header_bytes > nb_fi_remain_bytes
        THEN LoopReturn(s, s.acc \o
                 << Err("0/21", << nb_fi_list_header_bytes, nb_fi_remain_bytes >>) >>)
        ELSE
        LET fi_list_buf == fi_lists_buf + curr_fi_byte
            id == Rd(mem, fi_list_buf) * 256 + Rd(mem, fi_list_buf + 1)
            RM == Bits(Rd(mem, fi_list_buf + 2), 7, 4)
            continuity_flag == Bits(Rd(mem, fi_list_buf + 2), 3, 3)
            nb_freq_list_bytes == Bits(Rd(mem, fi_list_buf + 2), 2, 0)
            head == << curr_block, curr_fi_list, Rfa0, RM, continuity_flag >>
                    \o (IF RM = 0 THEN EnsembleIdentifier_ProcessU16(id) ELSE << id >>)
        IN  IF RM \notin {0, 8, 6, 14}
            THEN LoopReturn(s, s.acc \o << Err("0/21", << RM >>) >>)
            ELSE IF RM # 8 /\ nb_freq_list_bytes % 3 # 0
            THEN LoopReturn(s, s.acc \o
                     << Err("0/21", << RM, nb_freq_list_bytes, 3 >>) >>)
            ELSE
            LET nb_entries == IF RM = 8 THEN nb_freq_list_bytes
                              ELSE nb_freq_list_bytes \div 3
            IN  LoopNext(s,
                    curr_fi_byte + nb_fi_list_header_bytes + nb_freq_list_bytes,
                    s.acc \o Ext_21_Entries(mem, fi_list_buf + 3, head, RM,
                                            nb_entries))

\* s.k is curr_block
Ext_21_Step(mem, buf, N, s) ==
    LET curr_byte == s.at
        curr_block == s.k
    IN  IF curr_byte >= N THEN LoopEnd(s, s.acc)
    ELSE
    LET nb_block_header_bytes == 2
        nb_remain_bytes == N - curr_byte
    IN  IF nb_block_header_bytes > nb_remain_bytes
        THEN LoopEnd(s, s.acc \o
                 << Err("0/21", << nb_block_header_bytes, nb_remain_bytes >>) >>)
        ELSE
        LET block_buf == buf + curr_byte
            Rfa0 == Rd(mem, block_buf) * 8 + Bits(Rd(mem, block_buf + 1), 7, 5)
            nb_fi_list_bytes == Bits(Rd(mem, block_buf + 1), 4, 0)
            lists == RunLoop([loop |-> "Ext_21_Lists", mem |-> mem,
                              fi_lists_buf |-> block_buf + nb_block_header_bytes,
                              nb_fi_list_bytes |-> nb_fi_list_bytes,
                              Rfa0 |-> Rfa0, curr_block |-> curr_block],
                             0, << >>)
        IN  IF ~lists.ok THEN LoopReturn(s, s.acc \o lists.acc)
            ELSE LoopNext(s, curr_byte + nb_block_header_bytes + nb_fi_list_bytes,
                          s.acc \o lists.acc)

ProcessFIG_Type_0_Ext_21(mem, buf, N, pd) ==
    RunLoop([loop |-> "Ext_21", mem |-> mem, buf |-> buf, N |-> N], 0, << >>).acc

Ext_24_EIds(mem, eids_buf, head, nb_EIds) ==
    [k \in 1..nb_EIds |->
        Msg("0/24", head \o << k - 1, nb_EIds >>
               \o EnsembleIdentifier_ProcessBuffer(mem, eids_buf + (k - 1) * 2))]

Ext_24_Step(mem, buf, N, pd, s) ==
    LET curr_byte == s.at
    IN  IF curr_byte >= N THEN LoopEnd(s, s.acc)
    ELSE
    LET nb_sid_bytes == IF pd # 0 THEN 4 ELSE 2
        nb_header_bytes == nb_sid_bytes + 1
        nb_remain_bytes == N - curr_byte
    IN  IF nb_header_bytes > nb_remain_bytes
        THEN LoopEnd(s, s.acc \o
                 << Err("0/24", << nb_header_bytes, nb_remain_bytes >>) >>)
        ELSE
        LET b == buf + curr_byte
            sid == ServiceIdentifier(mem, b, pd)
            descriptor == Rd(mem, b + nb_sid_bytes)
            Rfa == Bits(descriptor, 7, 7)
            CAId == Bits(descriptor, 6, 4)
            nb_EIds == Bits(descriptor, 3, 0)
            nb_EId_list_bytes == 2 * nb_EIds
            nb_EId_list_remain_bytes == nb_remain_bytes - nb_header_bytes
        IN  IF nb_EId_list_bytes > nb_EId_list_remain_bytes
            THEN LoopEnd(s, s.acc \o
                     << Err("0/24", << nb_EId_list_bytes,
                                       nb_EId_list_remain_bytes >>) >>)
            ELSE LoopNext(s, curr_byte + nb_header_bytes + nb_EId_list_bytes,
                     s.acc \o Ext_24_EIds(mem, b + nb_header_bytes,
                                          sid \o << Rfa, CAId >>, nb_EIds))

ProcessFIG_Type_0_Ext_24(mem, buf, N, pd) ==
    RunLoop([loop |-> "Ext_24", mem |-> mem, buf |-> buf, N |-> N, pd |-> pd],
            0, << >>).acc

(***************************************************************************)
(* FIG type handlers and the FIG scan of one FIB                           *)
(***************************************************************************)
ImplementedExtensions == {0, 1, 2, 3, 4, 6, 7, 8, 9, 10, 13, 14, 17, 21, 24}

\* the default label of the switch on the extension: nothing is done
ProcessFIG_Type_0_Default_LogsError(mem, buf, N, pd) ==
    << Err("0", << N >>) >>

ProcessFIG_Type_0_Default(mem, buf, N, pd) == << >>

\* const uint8_t nb_field_bytes = N-1
Type_0_nb_field_bytes(N) == (N - 1) % 256

\* buf is the offset of the FIG data field, N the data length of the FIG
\* header
ProcessFIG_Type_0(mem, buf, N) ==
    LET descriptor == Rd(mem, buf)
        pd == Bits(descriptor, 5, 5)
        extension == Bits(descriptor, 4, 0)
        field_buf == buf + 1
        nb_field_bytes == Type_0_nb_field_bytes(N)
    IN  CASE extension = 1  -> ProcessFIG_Type_0_Ext_1(mem, field_buf, nb_field_bytes, pd)
          [] extension = 14 -> ProcessFIG_Type_0_Ext_14(mem, field_buf, nb_field_bytes, pd)
          [] extension = 2  -> ProcessFIG_Type_0_Ext_2(mem, field_buf, nb_field_bytes, pd)
          [] extension = 3  -> ProcessFIG_Type_0_Ext_3(mem, field_buf, nb_field_bytes, pd)
          [] extension = 4  -> ProcessFIG_Type_0_Ext_4(mem, field_buf, nb_field_bytes, pd)
          [] extension = 8  -> ProcessFIG_Type_0_Ext_8(mem, field_buf, nb_field_bytes, pd)
          [] extension = 13 -> ProcessFIG_Type_0_Ext_13(mem, field_buf, nb_field_bytes, pd)
          [] extension = 0  -> ProcessFIG_Type_0_Ext_0(mem, field_buf, nb_field_bytes, pd)
          [] extension = 7  -> ProcessFIG_Type_0_Ext_7(mem, field_buf, nb_field_bytes, pd)
          [] extension = 6  -> ProcessFIG_Type_0_Ext_6(mem, field_buf, nb_field_bytes, pd)
          [] extension = 10 -> ProcessFIG_Type_0_Ext_10(mem, field_buf, nb_field_bytes, pd)
          [] extension = 9  -> ProcessFIG_Type_0_Ext_9(mem, field_buf, nb_field_bytes, pd)
          [] extension = 17 -> ProcessFIG_Type_0_Ext_17(mem, field_buf, nb_field_bytes, pd)
          [] extension = 21 -> ProcessFIG_Type_0_Ext_21(mem, field_buf, nb_field_bytes, pd)
          [] extension = 24 -> ProcessFIG_Type_0_Ext_24(mem, field_buf, nb_field_bytes, pd)
          [] OTHER -> ProcessFIG_Type_0_Default(mem, field_buf, nb_field_bytes, pd)

\* types 1, 2 and 6 decode their descriptor into locals and log nothing
ProcessFIG_Type_1_LogsEntry(mem, buf, N) == << Msg("1", << N >>) >>

ProcessFIG_Type_1(mem, buf, N) == << >>
ProcessFIG_Type_2(mem, buf, N) == << >>
ProcessFIG_Type_6(mem, buf, N) == << >>

\* number of payload bytes of a FIB scanned by ProcessFIG
FIG_N_OffByOne == 30 + 1

FIG_N == 30

\* the check of the FIG length against the bytes left in the FIB
FIG_Overflows_Never(fig_length_bytes, nb_remain_bytes) == FALSE

FIG_Overflows(fig_length_bytes, nb_remain_bytes) ==
    fig_length_bytes > nb_remain_bytes

\* a handler call made by ProcessFIG: the FIG type, the offset of the FIG
\* header in the payload, the data length of the header, and (type 0) the
\* extension
Dispatch(mem, fib_buf, fig_type, at, len) ==
    [type |-> fig_type, at |-> at, len |-> len,
     ext |-> IF fig_type = 0 THEN Bits(Rd(mem, fib_buf + at + 1), 4, 0) ELSE -1]

\* the lines a handler logged, each with the offset of the FIG header it
\* was called for
Tag(at, lines) ==
    [i \in 1..Len(lines) |->
        [at |-> at, kind |-> lines[i].kind, fig |-> lines[i].fig,
         vals |-> lines[i].vals]]

\* the result of one ProcessFIG call: the handler calls made, the lines
\* logged, and why the scan ended
FigResult(dispatched, log, stop) ==
    [dispatched |-> dispatched, log |-> log, stop |-> stop]

\* the switch on fig_type for the types that call a handler
FIG_Dispatch(mem, fig_buf, fig_type, N) ==
    CASE fig_type = 0 -> ProcessFIG_Type_0(mem, fig_buf, N)
      [] fig_type = 1 -> ProcessFIG_Type_1(mem, fig_buf, N)
      [] fig_type = 2 -> ProcessFIG_Type_2(mem, fig_buf, N)
      [] fig_type = 6 -> ProcessFIG_Type_6(mem, fig_buf, N)

\* the CRC word of a FIB as the transmitter computes it, bit by bit (see
\* the FIB groups below)
RECURSIVE TxShift(_, _)
TxShift(r, n) ==
    IF n = 0 THEN r
    ELSE IF r >= 32768 THEN TxShift(BitXor((2 * r) % 65536, 4129), n - 1)
    ELSE TxShift((2 * r) % 65536, n - 1)

\* the next byte is added into the top of the register s.acc, which is
\* then shifted 8 times
TxCrc_Step(data, s) ==
    IF s.at >= Len(data) THEN LoopEnd(s, s.acc)
    ELSE LoopNext(s, s.at + 1, TxShift(BitXor(s.acc, data[s.at + 1] * 256), 8))

\* curr_byte += fig_length_bytes
FIG_Next_Stuck(curr_byte, fig_length_bytes) == curr_byte

FIG_Next(curr_byte, fig_length_bytes) == curr_byte + fig_length_bytes

\* one pass of the while loop of ProcessFIG; s.at is curr_byte, s.acc the
\* result so far
ProcessFIG_Step(mem, fib_buf, s) ==
    LET curr_byte == s.at
        acc == s.acc
    IN  IF curr_byte >= FIG_N
        THEN LoopEnd(s, FigResult(acc.dispatched, acc.log, "end"))
    ELSE
    LET nb_remain_bytes == FIG_N - curr_byte
        header == Rd(mem, fib_buf + curr_byte)
    IN  IF header = 255
        THEN LoopReturn(s, FigResult(acc.dispatched, acc.log, "delimiter"))
        ELSE
        LET fig_type == Bits(header, 7, 5)
            fig_data_length_bytes == Bits(header, 4, 0)
            fig_length_bytes == (fig_data_length_bytes + 1) % 256
        IN  IF FIG_Overflows(fig_length_bytes, nb_remain_bytes)
            THEN LoopReturn(s, FigResult(acc.dispatched,
                     acc.log \o Tag(curr_byte,
                         << Err("fig", << fig_length_bytes, nb_remain_bytes >>) >>),
                     "overflow"))
            ELSE
            LET fig_buf == fib_buf + curr_byte + 1
            IN  IF fig_type \in {0, 1, 2, 6}
                THEN LoopNext(s, FIG_Next(curr_byte, fig_length_bytes),
                        FigResult(
                            Append(acc.dispatched,
                                   Dispatch(mem, fib_buf, fig_type, curr_byte,
                                            fig_data_length_bytes)),
                            acc.log \o Tag(curr_byte,
                                FIG_Dispatch(mem, fig_buf, fig_type,
                                             fig_data_length_bytes)),
                            acc.stop))
                ELSE IF fig_type = 7
                THEN LoopReturn(s, FigResult(acc.dispatched, acc.log, "type7"))
                ELSE LoopReturn(s, FigResult(acc.dispatched,
                         acc.log \o Tag(curr_byte, << Err("fig", << fig_type >>) >>),
                         "reserved"))

ProcessFIG(mem, fib_buf) ==
    RunLoop([loop |-> "ProcessFIG", mem |-> mem, buf |-> fib_buf],
            0, FigResult(<< >>, << >>, "run")).acc

(***************************************************************************)
(* FIC_Processor::ProcessFIBGroup, from the descrambled bytes on: the      *)
(* CRC check of each FIB and the call of ProcessFIG                        *)
(***************************************************************************)
nb_fibs == 3
nb_fib_bytes == 32
nb_data_bytes == 30

\* the two bytes after the data, big endian, inverted
FIB_crc16_rx_NotInverted(mem, fib_buf) ==
    Rd(mem, fib_buf + nb_data_bytes) * 256 + Rd(mem, fib_buf + nb_data_bytes + 1)

FIB_crc16_rx(mem, fib_buf) ==
    BitXor(BitOr(Rd(mem, fib_buf + nb_data_bytes) * 256,
                 Rd(mem, fib_buf + nb_data_bytes + 1)),
           crc16_rx_invert)

FIB_is_valid(mem, fib_buf) ==
    FIB_crc16_rx(mem, fib_buf) = CRC_Calculate(mem, fib_buf, nb_data_bytes)

\* the loop over the FIBs of the group: [parsed, out]
RECURSIVE FIB_Loop_StopsAtInvalid(_, _)
FIB_Loop_StopsAtInvalid(mem, i) ==
    IF i >= nb_fibs \/ ~FIB_is_valid(mem, i * nb_fib_bytes)
    THEN [parsed |-> << >>, out |-> << >>]
    ELSE
    LET rest == FIB_Loop_StopsAtInvalid(mem, i + 1)
    IN  [parsed |-> << i >> \o rest.parsed,
         out |-> << ProcessFIG(mem, i * nb_fib_bytes) >> \o rest.out]

RECURSIVE FIB_Loop(_, _)
FIB_Loop(mem, i) ==
    IF i >= nb_fibs THEN [parsed |-> << >>, out |-> << >>]
    ELSE
    LET fib_buf == i * nb_fib_bytes
        rest == FIB_Loop(mem, i + 1)
    IN  IF FIB_is_valid(mem, fib_buf)
        THEN [parsed |-> << i >> \o rest.parsed,
              out |-> << ProcessFIG(mem, fib_buf) >> \o rest.out]
        ELSE rest

ProcessFIBGroup ==
    /\ fic_pc = "decoded"
    /\ LET r == FIB_Loop(decoded_bytes, 0)
       IN  /\ fic_parsed' = r.parsed
           /\ fic_out' = r.out
    /\ fic_pc' = "done"
    /\ UNCHANGED <<decoded_bytes, heap_byte>>

(***************************************************************************)
(* The FIB groups the processor is given.  A FIB is a 30-byte payload and  *)
(* the two CRC bytes the transmitter appends (ETSI EN 300 401 5.2.1: the   *)
(* CRC word of polynomial x^16+x^12+x^5+1, register preset to all ones,    *)
(* complemented before transmission), here computed bit by bit; a mask     *)
(* other than 0 stands for channel errors in the two CRC bytes.            *)
(***************************************************************************)
\* the register after all the bytes of data
TxCrcBytes(data) == RunLoop([loop |-> "TxCrc", data |-> data], 0, 65535).acc

TxCrcWord(data) == 65535 - TxCrcBytes(data)

MakeFIB(payload, mask) ==
    LET w == BitXor(TxCrcWord(payload), mask)
    IN  payload \o << w \div 256, w % 256 >>

\* FIGs the payloads are built from
FigLib == <<
    << 5, 0, 192, 18, 52, 5 >>,          \* FIG 0/0, 4-byte field
    << 6, 0, 192, 18, 52, 5, 50 >>,      \* FIG 0/0, 5-byte field
    << 6, 2, 18, 52, 1, 0, 4 >>,         \* FIG 0/2, one service, one component
    << 4, 2, 18, 52, 2 >>,               \* FIG 0/2, components overrun the field
    << 3, 5, 1, 2 >>,                    \* FIG 0/5, not implemented
    << 3, 7, 4, 1 >>,                    \* FIG 0/7
    << 55 >> \o [i \in 1..23 |-> 65],    \* FIG 1, 24 bytes
    << 65, 0 >>,                         \* FIG 2
    << 193, 0 >>,                        \* FIG 6
    << 224 >>,                           \* FIG 7
    << 97, 0 >>,                         \* reserved type 3
    << 31 >>,                            \* type 0, length 31: overruns the FIB
    << 0 >>,                             \* type 0, data length 0
    << 255 >>,                           \* the delimiter, before the end
    << 5, 10, 58, 96, 0, 116 >>,         \* FIG 0/10, MJD 59776, 01:52
    << 5, 10, 58, 96, 64, 116 >>,        \* FIG 0/10, MJD 59777, 01:52
    << 6, 10, 55, 198, 8, 18, 52 >>      \* FIG 0/10, field 37 C6 08 12 34
>>

\* the FIGs (indices of FigLib) that may follow the first FIG of a payload
FollowFigs == {1, 5, 10}

\* how many FIGs a generated payload holds at most
MaxFigs == 2

RECURSIVE Concat(_, _)
Concat(lib, idx) ==
    IF idx = << >> THEN << >> ELSE lib[Head(idx)] \o Concat(lib, Tail(idx))

\* the FIGs, then the 0xFF delimiter and 0x00 padding up to 30 bytes
Pad(figs) ==
    IF Len(figs) >= nb_data_bytes THEN figs
    ELSE figs \o << 255 >> \o [i \in 1..(nb_data_bytes - Len(figs) - 1) |-> 0]

FigChoices ==
    { idx \in UNION { [1..k -> 1..Len(FigLib)] : k \in 0..MaxFigs } :
        /\ \A j \in 2..Len(idx) : idx[j] \in FollowFigs
        /\ Len(Concat(FigLib, idx)) <= nb_data_bytes }

FigPayloads == { Pad(Concat(FigLib, idx)) : idx \in FigChoices }

EmptyFIB == MakeFIB(Pad(<< >>), 0)

\* one FIB with a valid CRC and any of the payloads, in the first slot
GroupsFIG == { MakeFIB(p, 0) \o EmptyFIB \o EmptyFIB : p \in FigPayloads }

\* three FIBs, each with a valid or a damaged CRC
CrcMasks == {0, 1, 32768, 65535}
CrcFIBs == { MakeFIB(Pad(FigLib[1]), m) : m \in CrcMasks }
GroupsCRC == { a \o b \o c : a \in CrcFIBs, b \in CrcFIBs, c \in CrcFIBs }

\* three FIBs that differ: a FIG 0/0, a FIG 0/2 whose components overrun its
\* field and a FIG 0/0 after it, a FIG whose length overruns the FIB, a
\* FIG 0/10, a FIG 0/2 under a damaged CRC, and a type-0 FIG of data length
\* 0 in front of a FIG that starts with the byte 0x04
MixedFIBs ==
    { MakeFIB(Pad(FigLib[1]), 0),
      MakeFIB(Pad(FigLib[13] \o FigLib[4]), 0),
      MakeFIB(Pad(FigLib[4] \o FigLib[1]), 0),
      MakeFIB(Pad(FigLib[12]), 0),
      MakeFIB(Pad(FigLib[15]), 0),
      MakeFIB(Pad(FigLib[3]), 1) }
GroupsMixed == { a \o b \o c : a \in MixedFIBs, b \in MixedFIBs, c \in MixedFIBs }

\* FIBs with one FIG 0/13 or FIG 0/21: a FIG 0/13 whose user application
\* lies in its field, one whose field ends after the service header, one
\* whose application data overrun the field; a FIG 0/21 whose block and
\* list lie in its field, one whose block declares more bytes than the
\* field has left, one whose list declares more bytes than its block has
\* left
ListFIBs ==
    { MakeFIB(Pad(<< 8, 13, 18, 52, 1, 0, 66, 170, 187 >>), 0),
      MakeFIB(Pad(<< 4, 13, 18, 52, 1 >>), 0),
      MakeFIB(Pad(<< 6, 13, 18, 52, 1, 0, 31 >>), 0),
      MakeFIB(Pad(<< 7, 21, 0, 4, 18, 52, 129, 85 >>), 0),
      MakeFIB(Pad(<< 3, 21, 0, 4, 224, 52, 129, 85 >>), 0),
      MakeFIB(Pad(<< 6, 21, 0, 3, 18, 52, 129 >>), 0) }
GroupsLists == { f \o EmptyFIB \o EmptyFIB : f \in ListFIBs }

\* FIBs that keep the loops of the parser running: one type-0 FIG that
\* fills the payload, of each extension whose handler has a loop, in both
\* P/D forms, with a field of zeros or of 0x80 and zeros; and a payload of
\* thirty FIG headers 0x00
LoopExtensions == {1, 2, 6, 8, 9, 13, 17, 21, 24}
Zeros(n) == [i \in 1..n |-> 0]
LoopFIBs ==
    { MakeFIB(<< 29, pd * 32 + ext, first >> \o Zeros(27), 0) :
        ext \in LoopExtensions, pd \in {0, 1}, first \in {0, 128} }
    \cup { MakeFIB(Zeros(nb_data_bytes), 0) }
GroupsLoops ==
    { f \o EmptyFIB \o EmptyFIB : f \in LoopFIBs }
    \cup { MakeFIB(Zeros(nb_data_bytes), 0)
            \o MakeFIB(<< 29, 6 >> \o Zeros(28), 0) \o EmptyFIB }

HeapBytes == {0, 255}

FicInit ==
    /\ decoded_bytes \in GroupsFIG \cup GroupsCRC \cup GroupsMixed \cup GroupsLists
                         \cup GroupsLoops
    /\ heap_byte \in HeapBytes
    /\ fic_pc = "decoded"
    /\ fic_parsed = << >>
    /\ fic_out = << >>

FicIdle ==
    /\ decoded_bytes = << >>
    /\ heap_byte = 0
    /\ fic_pc = "idle"
    /\ fic_parsed = << >>
    /\ fic_out = << >>

(***************************************************************************)
(* DAB_Viterbi_Decoder::update: depuncturing in front of the decoder core. *)
(* Soft symbols are integers; the decoder core, which is not part of this  *)
(* source, is the sequence of symbols handed to it.                        *)
(***************************************************************************)
code_rate == 4

\* SOFT_DECISION_VITERBI_PUNCTURED, the neutral symbol, midway between the
\* low and the high soft decision
soft_decision_unpunctured == 0

\* depunctured_symbols.resize(n), made only when the vector is shorter
Resize(v, n) ==
    IF n > Len(v) THEN v \o [k \in 1..(n - Len(v)) |-> 0] ELSE v

\* one pass of the for loop of update; s.at is i, s.acc holds the vector
\* and the three indices
Update_Step_IgnoresCode(punctured_symbols, puncture_code, requested_output_symbols, s) ==
    IF s.at >= requested_output_symbols THEN LoopEnd(s, s.acc)
    ELSE IF s.acc.index_punctured_symbol >= Len(punctured_symbols)
    THEN LoopReturn(s, s.acc)
    ELSE LoopNext(s, s.at + 1,
            [s.acc EXCEPT
                !.depunctured_symbols[s.at + 1] =
                    punctured_symbols[s.acc.index_punctured_symbol + 1],
                !.index_punctured_symbol = @ + 1,
                !.index_output_symbol = @ + 1])

Update_Step_NoFailsafe(punctured_symbols, puncture_code, requested_output_symbols, s) ==
    LET i == s.at
        a == s.acc
    IN  IF i >= requested_output_symbols THEN LoopEnd(s, a)
        ELSE
        LET is_punctured == puncture_code[a.index_puncture_code + 1] # 0
            index_puncture_code ==
                (a.index_puncture_code + 1) % Len(puncture_code)
            has_symbol == a.index_punctured_symbol < Len(punctured_symbols)
        IN  LoopNext(s, i + 1,
                [a EXCEPT
                    !.depunctured_symbols[i + 1] =
                        IF is_punctured /\ has_symbol
                        THEN punctured_symbols[a.index_punctured_symbol + 1]
                        ELSE soft_decision_unpunctured,
                    !.index_punctured_symbol =
                        IF is_punctured /\ has_symbol THEN @ + 1 ELSE @,
                    !.index_puncture_code = index_puncture_code,
                    !.index_output_symbol = @ + 1])

Update_Step(punctured_symbols, puncture_code, requested_output_symbols, s) ==
    LET i == s.at
        a == s.acc
        total_symbols == Len(punctured_symbols)
    IN  IF i >= requested_output_symbols THEN LoopEnd(s, a)
        ELSE
        LET is_punctured == puncture_code[a.index_puncture_code + 1] # 0
            index_puncture_code ==
                (a.index_puncture_code + 1) % Len(puncture_code)
        IN  IF is_punctured
            THEN IF a.index_punctured_symbol >= total_symbols
                 THEN LoopReturn(s, a)
                 ELSE LoopNext(s, i + 1,
                        [a EXCEPT
                            !.depunctured_symbols[i + 1] =
                                punctured_symbols[a.index_punctured_symbol + 1],
                            !.index_punctured_symbol = @ + 1,
                            !.index_puncture_code = index_puncture_code,
                            !.index_output_symbol = @ + 1])
            ELSE LoopNext(s, i + 1,
                    [a EXCEPT
                        !.depunctured_symbols[i + 1] = soft_decision_unpunctured,
                        !.index_puncture_code = index_puncture_code,
                        !.index_output_symbol = @ + 1])

\* update, given the vector as the earlier calls left it: the vector after
\* the call, the value returned, the calls made to the decoder core, and
\* whether an assert condition was false
DAB_Viterbi_Decoder_update(v, punctured_symbols, puncture_code, requested_output_symbols) ==
    LET r == RunLoop([loop |-> "update",
                      punctured_symbols |-> punctured_symbols,
                      puncture_code |-> puncture_code,
                      requested_output_symbols |-> requested_output_symbols],
                     0,
                     [depunctured_symbols |-> Resize(v, requested_output_symbols),
                      index_punctured_symbol |-> 0,
                      index_puncture_code |-> 0,
                      index_output_symbol |-> 0])
    IN  [depunctured_symbols |-> r.acc.depunctured_symbols,
         returned |-> IF r.ok THEN r.acc.index_punctured_symbol ELSE 0,
         handed |-> IF r.ok
                    THEN << SubSeq(r.acc.depunctured_symbols, 1,
                                   requested_output_symbols) >>
                    ELSE << >>,
         asserted |-> \/ requested_output_symbols % code_rate # 0
                      \/ ~r.ok]

\* how many code_rate blocks of symbols a call of update requests at most
MaxBlocks == 2

\* the punctured symbols of a call: n symbols, no two neighbours equal
PuncturedSymbols(n) == [i \in 1..n |-> ((3 * i) % 7) * 40 - 120]

SymbolCounts == {0, 3, code_rate * MaxBlocks}

PunctureCodes == { << 1, 1, 1, 0 >>, << 1, 1, 0, 0 >>, << 1, 0, 1 >>, << 0, 2 >> }

VitInit ==
    /\ depunctured_symbols = << >>
    /\ ndebug \in BOOLEAN
    /\ vit_pc = "ready"
    /\ vit_call = << >>

VitIdle ==
    /\ depunctured_symbols = << >>
    /\ ndebug = TRUE
    /\ vit_pc = "idle"
    /\ vit_call = << >>

\* a call of update; a false assert condition ends the program unless
\* the build defines NDEBUG
Call_update(punctured_symbols, puncture_code, requested_output_symbols) ==
    /\ vit_pc = "ready"
    /\ LET r == DAB_Viterbi_Decoder_update(depunctured_symbols, punctured_symbols,
                    puncture_code, requested_output_symbols)
       IN  /\ depunctured_symbols' = r.depunctured_symbols
           /\ vit_pc' = IF r.asserted /\ ~ndebug THEN "aborted" ELSE "ready"
           /\ vit_call' =
                << [punctured_symbols |-> punctured_symbols,
                    puncture_code |-> puncture_code,
                    requested_output_symbols |-> requested_output_symbols,
                    handed |-> r.handed,
                    returned |-> r.returned] >>
    /\ UNCHANGED ndebug

(***************************************************************************)
(* FIC_Processor::ProcessFIBGroup, up to the decoded bits: the encoded     *)
(* bytes are unpacked into bits and decoded in three passes of the Viterbi *)
(* decoder.  ViterbiDecoder and the puncture codes are not part of this    *)
(* source: Decode is the depuncturing walk of its specification, and what  *)
(* the passes write into decoded_bits is left open.                        *)
(***************************************************************************)
nb_encoded_bytes == 288
nb_encoded_bits == nb_encoded_bytes * 8
nb_decoded_bits == nb_encoded_bits \div 3
nb_decoded_bytes == nb_decoded_bits \div 8

\* encoded_bits[8*i + j] = (b >> j) & 0b1
UnpackBits(bytes) ==
    [n \in 1..(8 * Len(bytes)) |->
        (bytes[((n - 1) \div 8) + 1] \div Pow2((n - 1) % 8)) % 2]

\* the puncture codes of the FIC: 1110 eight times; 1110 seven times and
\* 1100; 1100 six times
PI_16 == [i \in 1..32 |-> IF i % 4 = 0 THEN 0 ELSE 1]
PI_15 == [i \in 1..32 |-> IF i % 4 = 0 \/ i = 31 THEN 0 ELSE 1]
PI_X == [i \in 1..24 |-> IF i % 4 \in {1, 2} THEN 1 ELSE 0]

\* one symbol of the walk of Decode over the puncture code: a flag of 1
\* consumes an encoded bit, a flag of 0 stands for a punctured symbol
Decode_Step(puncture_code, nb_puncture_bits, nb_encoded, max_puncture_bits, s) ==
    IF s.at >= max_puncture_bits THEN LoopEnd(s, s.acc)
    ELSE IF puncture_code[(s.at % nb_puncture_bits) + 1] # 0
    THEN IF s.acc >= nb_encoded THEN LoopEnd(s, s.acc)
         ELSE LoopNext(s, s.at + 1, s.acc + 1)
    ELSE LoopNext(s, s.at + 1, s.acc)

\* ViterbiDecoder::Decode: the encoded bits consumed, the symbols walked
\* and the bits decoded, one per code_rate symbols as far as the output
\* has room
ViterbiDecoder_Decode(nb_encoded, puncture_code, nb_puncture_bits, nb_decoded, max_puncture_bits, is_end) ==
    LET r == Iterate([loop |-> "Decode", puncture_code |-> puncture_code,
                      nb_puncture_bits |-> nb_puncture_bits,
                      nb_encoded |-> nb_encoded,
                      max_puncture_bits |-> max_puncture_bits],
                     LoopState(0, 0), max_puncture_bits + 1)
        bits == r.at \div code_rate
    IN  [nb_encoded_bits |-> r.acc,
         nb_puncture_bits |-> r.at,
         nb_decoded_bits |-> IF bits > nb_decoded THEN nb_decoded ELSE bits]

\* a call made on vitdec, with the offsets it was given
DecodeCall(code, nb_puncture_bits, max_puncture_bits, is_end, res) ==
    [op |-> "Decode", code |-> code, nb_puncture_bits |-> nb_puncture_bits,
     max_puncture_bits |-> max_puncture_bits, is_end |-> is_end,
     encoded_at |-> curr_encoded_bit,
     encoded_room |-> nb_encoded_bits - curr_encoded_bit,
     decoded_at |-> curr_decoded_bit,
     decoded_room |-> nb_decoded_bits - curr_decoded_bit,
     res |-> res]

\* the largest byte value of the encoded groups
MaxEncodedByte == 24

EncodedGroups ==
    { [i \in 1..nb_encoded_bytes |-> (b * i) % 256] : b \in 0..MaxEncodedByte }

FicDecodeInit ==
    /\ encoded_bytes \in EncodedGroups
    /\ encoded_bits = << >>
    /\ fd_pc = "encoded"
    /\ curr_encoded_bit = 0
    /\ curr_puncture_bit = 0
    /\ curr_decoded_bit = 0
    /\ vitdec_calls = << >>

FicDecodeIdle ==
    /\ encoded_bytes = << >>
    /\ encoded_bits = << >>
    /\ fd_pc = "idle"
    /\ curr_encoded_bit = 0
    /\ curr_puncture_bit = 0
    /\ curr_decoded_bit = 0
    /\ vitdec_calls = << >>

\* lines 124-149: unpack the bits, clear the offsets, reset the decoder
ProcessFIBGroup_Unpack ==
    /\ fd_pc = "encoded"
    /\ encoded_bits' = UnpackBits(encoded_bytes)
    /\ curr_encoded_bit' = 0
    /\ curr_puncture_bit' = 0
    /\ curr_decoded_bit' = 0
    /\ vitdec_calls' = Append(vitdec_calls, [op |-> "Reset"])
    /\ fd_pc' = "pass_PI_16"
    /\ UNCHANGED encoded_bytes

\* a Decode call of ProcessFIBGroup and the three additions after it
ProcessFIBGroup_Decode_OffsetsNotAdded(code, nb_puncture_bits, max_puncture_bits, is_end, pc) ==
    LET res == ViterbiDecoder_Decode(nb_encoded_bits - curr_encoded_bit,
                   code, nb_puncture_bits, nb_decoded_bits - curr_decoded_bit,
                   max_puncture_bits, is_end)
    IN  /\ vitdec_calls' = Append(vitdec_calls,
                DecodeCall(code, nb_puncture_bits, max_puncture_bits, is_end, res))
        /\ curr_encoded_bit' = res.nb_encoded_bits
        /\ curr_puncture_bit' = res.nb_puncture_bits
        /\ curr_decoded_bit' = res.nb_decoded_bits
        /\ fd_pc' = pc
        /\ UNCHANGED <<encoded_bytes, encoded_bits>>

ProcessFIBGroup_Decode(code, nb_puncture_bits, max_puncture_bits, is_end, pc) ==
    LET res == ViterbiDecoder_Decode(nb_encoded_bits - curr_encoded_bit,
                   code, nb_puncture_bits, nb_decoded_bits - curr_decoded_bit,
                   max_puncture_bits, is_end)
    IN  /\ vitdec_calls' = Append(vitdec_calls,
                DecodeCall(code, nb_puncture_bits, max_puncture_bits, is_end, res))
        /\ curr_encoded_bit' = curr_encoded_bit + res.nb_encoded_bits
        /\ curr_puncture_bit' = curr_puncture_bit + res.nb_puncture_bits
        /\ curr_decoded_bit' = curr_decoded_bit + res.nb_decoded_bits
        /\ fd_pc' = pc
        /\ UNCHANGED <<encoded_bytes, encoded_bits>>

ProcessFIBGroup_PI_16 ==
    /\ fd_pc = "pass_PI_16"
    /\ ProcessFIBGroup_Decode(PI_16, 32, 128 * 21, FALSE, "pass_PI_15")

ProcessFIBGroup_PI_15 ==
    /\ fd_pc = "pass_PI_15"
    /\ ProcessFIBGroup_Decode(PI_15, 32, 128 * 3, FALSE, "pass_PI_X")

ProcessFIBGroup_PI_X ==
    /\ fd_pc = "pass_PI_X"
    /\ ProcessFIBGroup_Decode(PI_X, 24, 24, TRUE, "viterbi_done")

(***************************************************************************)
(* Basic_DAB_Plus_Channel: Process and the callbacks of SetupCallbacks.    *)
(* The MSC decoder, the AAC frame processor and the AAC decoders are not   *)
(* part of this source: DecodeCIF yields bytes or nothing, DecodeFrame     *)
(* fails or not, and the frame processor raises the events of a superframe *)
(* in the order of its specification (firecode check, Reed-Solomon,        *)
(* header, access units by index), each event when it chooses to.          *)
(***************************************************************************)
\* m_params.nb_cifs and m_params.nb_cif_bits
nb_cifs == 2
nb_cif_bits == 2
nb_msc_bits == nb_cifs * nb_cif_bits

\* access units of a superframe
NbAus == 2

\* the control flags a channel can have
ControlStates ==
    {StopAll(0), SetIsDecodeData(0, TRUE), SetIsDecodeAudio(0, TRUE), RunAll(0)}

\* SuperFrameHeader: the four fields the channel reads and the MPEG
\* surround configuration
SuperFrameHeader(sampling_rate, PS_flag, SBR_flag, is_stereo, mpeg_surround) ==
    [sampling_rate |-> sampling_rate, PS_flag |-> PS_flag, SBR_flag |-> SBR_flag,
     is_stereo |-> is_stereo, mpeg_surround |-> mpeg_surround]

Headers ==
    { SuperFrameHeader(48000, FALSE, TRUE, TRUE, 0),
      SuperFrameHeader(48000, FALSE, TRUE, TRUE, 1),
      SuperFrameHeader(32000, FALSE, TRUE, TRUE, 0) }

\* AAC_Audio_Decoder::Params of a header
AudioParams(header) ==
    [sampling_frequency |-> header.sampling_rate,
     is_PS |-> header.PS_flag,
     is_SBR |-> header.SBR_flag,
     is_stereo |-> header.is_stereo]

\* the decoder is << >> (NULL) or holds the parameters it was made with
replace_decoder_Never(decoder, audio_params) == FALSE

replace_decoder(decoder, audio_params) ==
    \/ decoder = << >>
    \/ decoder[1] # audio_params

\* the size check of Process
Process_SizeMismatch_Never(nb_bits) == FALSE

Process_SizeMismatch(nb_bits) == nb_bits # nb_msc_bits

chan_state == <<m_aac_audio_decoder, m_super_frame_header, m_is_codec_error,
                m_is_firecode_error, m_is_rs_error, m_is_au_error>>
frame_vars == <<sf_stage, sf_au, sf_crc, sf_errors, codec_window, header_event>>

ChanInit ==
    /\ chan_pc = "idle"
    /\ cif_i = 0
    /\ m_aac_audio_decoder = << >>
    /\ m_super_frame_header = << >>
    /\ m_is_codec_error = FALSE
    /\ m_is_firecode_error = FALSE
    /\ m_is_rs_error = FALSE
    /\ m_is_au_error = FALSE
    /\ chan_calls = << >>
    /\ chan_out = << >>
    /\ cif_log = << >>
    /\ sf_stage = "none"
    /\ sf_au = 0
    /\ sf_crc = FALSE
    /\ sf_errors = {}
    /\ codec_window = "none"
    /\ header_event = << >>

\* chan_calls holds the call before the latest and the latest
RememberCall(c) ==
    IF chan_calls = << >> THEN << c >>
    ELSE << chan_calls[Len(chan_calls)], c >>

\* Process up to its for loop
Process(nb_bits) ==
    /\ chan_pc = "idle"
    /\ IF Process_SizeMismatch(nb_bits)
       THEN /\ chan_out' = << [kind |-> "err", vals |-> << nb_bits, nb_msc_bits >>] >>
            /\ chan_calls' = RememberCall([did |-> "size_error"])
            /\ UNCHANGED <<chan_pc, cif_i>>
       ELSE IF ~GetAnyEnabled(flags)
       THEN /\ chan_out' = << >>
            /\ chan_calls' = RememberCall([did |-> "disabled"])
            /\ UNCHANGED <<chan_pc, cif_i>>
       ELSE /\ chan_out' = << >>
            /\ chan_calls' = RememberCall([did |-> "processed"])
            /\ chan_pc' = "cif"
            /\ cif_i' = 0
    /\ cif_log' = << >>
    /\ UNCHANGED <<chan_state, frame_vars>>

\* the loop condition and DecodeCIF: the loop ends, or the CIF yields no
\* bytes (continue), or its bytes go to the frame processor
\* msc_bits_buf.subspan(i*nb_cif_bits, nb_cif_bits): the offset and the
\* count of the bits of CIF i
subspan_FromZero(i) == [offset |-> 0, count |-> nb_cif_bits]

subspan(i) == [offset |-> i * nb_cif_bits, count |-> nb_cif_bits]

\* the loop condition and DecodeCIF: cif_log lists the CIFs the call gave
\* to the MSC decoder, and which of them went on to the frame processor
Process_CIF(empty) ==
    /\ chan_pc = "cif"
    /\ IF cif_i >= nb_cifs
       THEN chan_pc' = "idle" /\ cif_i' = cif_i /\ cif_log' = cif_log
       ELSE /\ cif_log' = Append(cif_log, [cif_buf |-> subspan(cif_i), fed |-> ~empty])
            /\ IF empty
               THEN chan_pc' = "cif" /\ cif_i' = cif_i + 1
               ELSE chan_pc' = "frame" /\ cif_i' = cif_i
    /\ chan_out' = << >>
    /\ UNCHANGED <<chan_state, frame_vars, chan_calls>>

\* m_aac_frame_processor->Process returns to the loop
FrameReturns == chan_pc' = "cif" /\ cif_i' = cif_i + 1

\* the frame processor raises no event for these bytes
Frame_NoEvent ==
    /\ chan_pc = "frame"
    /\ sf_stage \in {"none", "ended"}
    /\ FrameReturns
    /\ chan_out' = << >>
    /\ UNCHANGED <<chan_state, frame_vars, chan_calls, cif_log>>

\* OnFirecodeError: the superframe is dropped
OnFirecodeError ==
    /\ chan_pc = "frame"
    /\ sf_stage \in {"none", "ended"}
    /\ m_is_firecode_error' = TRUE
    /\ sf_stage' = "ended" /\ sf_errors' = {"firecode"}
    /\ codec_window' = codec_window
    /\ sf_au' = 0 /\ sf_crc' = FALSE
    /\ FrameReturns
    /\ chan_out' = << >>
    /\ UNCHANGED <<m_aac_audio_decoder, m_super_frame_header, m_is_codec_error,
                   m_is_rs_error, m_is_au_error, chan_calls, cif_log, header_event>>

\* OnRSError: the superframe is dropped, or forwarded with the error
OnRSError(dropped) ==
    /\ chan_pc = "frame"
    /\ sf_stage \in {"none", "ended"}
    /\ m_is_rs_error' = TRUE
    /\ sf_errors' = {"rs"}
    /\ codec_window' = codec_window
    /\ sf_au' = 0 /\ sf_crc' = FALSE
    /\ IF dropped
       THEN sf_stage' = "ended" /\ FrameReturns
       ELSE sf_stage' = "rs_done" /\ UNCHANGED <<chan_pc, cif_i>>
    /\ chan_out' = << >>
    /\ UNCHANGED <<m_aac_audio_decoder, m_super_frame_header, m_is_codec_error,
                   m_is_firecode_error, m_is_au_error, chan_calls, cif_log, header_event>>

\* OnSuperFrameHeader: the listener of lines 54-70, then that of 132-135
OnSuperFrameHeader(header) ==
    /\ chan_pc = "frame"
    /\ sf_stage \in {"none", "ended", "rs_done"}
    /\ LET audio_params == AudioParams(header)
           replace == replace_decoder(m_aac_audio_decoder, audio_params)
       IN  /\ m_super_frame_header' = << header >>
           /\ m_aac_audio_decoder' =
                IF replace THEN << audio_params >> ELSE m_aac_audio_decoder
           /\ header_event' = << [header |-> header,
                                  previous |-> m_super_frame_header,
                                  replacements |-> IF replace THEN 1 ELSE 0] >>
    /\ m_is_firecode_error' = FALSE
    /\ m_is_rs_error' = FALSE
    /\ sf_stage' = "au"
    /\ sf_errors' = IF sf_stage = "rs_done" THEN sf_errors ELSE {}
    /\ codec_window' = codec_window
    /\ sf_au' = 0 /\ sf_crc' = FALSE
    /\ chan_out' = << >>
    /\ UNCHANGED <<chan_pc, cif_i, m_is_codec_error, m_is_au_error, chan_calls, cif_log>>

\* OnSuperFrameHeader when the constructor of AAC_Audio_Decoder fails:
\* make_unique throws after line 55 and before the assignment of line 68,
\* the listener of lines 132-135 is not reached and the exception leaves
\* the frame processor and Process, which catch nothing
OnSuperFrameHeader_Throws(header) ==
    /\ chan_pc = "frame"
    /\ sf_stage \in {"none", "ended", "rs_done"}
    /\ replace_decoder(m_aac_audio_decoder, AudioParams(header)) = TRUE
    /\ m_super_frame_header' = << header >>
    /\ header_event' = << >>
    /\ chan_pc' = "idle" /\ cif_i' = cif_i
    /\ sf_stage' = "ended"
    /\ sf_errors' = IF sf_stage = "rs_done" THEN sf_errors ELSE {}
    /\ codec_window' = codec_window
    /\ sf_au' = 0 /\ sf_crc' = FALSE
    /\ chan_out' = << [kind |-> "throw", vals |-> << header.sampling_rate >>] >>
    /\ UNCHANGED <<m_aac_audio_decoder, m_is_codec_error, m_is_firecode_error,
                   m_is_rs_error, m_is_au_error, chan_calls, cif_log>>

\* the header of the superframe is the one already published, and the
\* frame processor does not publish it again
Frame_HeaderUnchanged ==
    /\ chan_pc = "frame"
    /\ sf_stage \in {"none", "ended", "rs_done"}
    /\ m_super_frame_header # << >>
    /\ sf_stage' = "au"
    /\ sf_errors' = IF sf_stage = "rs_done" THEN sf_errors ELSE {}
    /\ codec_window' = codec_window
    /\ sf_au' = 0 /\ sf_crc' = FALSE
    /\ chan_out' = << >>
    /\ UNCHANGED <<chan_pc, cif_i, chan_state, chan_calls, cif_log, header_event>>

\* OnAccessUnitCRCError for the access unit that is next
OnAccessUnitCRCError ==
    /\ chan_pc = "frame"
    /\ sf_stage = "au" /\ sf_au < NbAus /\ ~sf_crc
    /\ m_is_au_error' = TRUE
    /\ sf_crc' = TRUE
    /\ sf_errors' = sf_errors \cup {"au"}
    /\ codec_window' = codec_window
    /\ chan_out' = << >>
    /\ UNCHANGED <<chan_pc, cif_i, m_aac_audio_decoder, m_super_frame_header,
                   m_is_codec_error, m_is_firecode_error, m_is_rs_error,
                   chan_calls, cif_log, sf_stage, sf_au, header_event>>

\* the access unit with the CRC error is not forwarded
Frame_DropAccessUnit ==
    /\ chan_pc = "frame"
    /\ sf_stage = "au" /\ sf_au < NbAus /\ sf_crc
    /\ sf_au' = sf_au + 1
    /\ sf_crc' = FALSE
    /\ chan_out' = << >>
    /\ UNCHANGED <<chan_pc, cif_i, chan_state, chan_calls, cif_log, sf_stage, sf_errors,
                   codec_window,
                   header_event>>

\* m_is_codec_error after DecodeFrame: set to the result for access unit 0,
\* then set when the result is an error
Update_is_codec_error_Latest(is_codec_error, au_index, is_error) == is_error

Update_is_codec_error(is_codec_error, au_index, is_error) ==
    LET reset == IF au_index = 0 THEN is_error ELSE is_codec_error
    IN  IF is_error THEN TRUE ELSE reset

\* OnAccessUnit for the access unit that is next: the listeners of lines
\* 73-99 (audio; is_error is what DecodeFrame reports), 102-107 (data) and
\* 141-145 (au_index == 0 clears the flag)
OnAccessUnit(is_error) ==
    /\ chan_pc = "frame"
    /\ sf_stage = "au" /\ sf_au < NbAus
    /\ LET au_index == sf_au
           decodes == GetIsDecodeAudio(flags) /\ m_aac_audio_decoder # << >>
           audio ==
               IF decodes /\ ~is_error
               THEN << [kind |-> "audio",
                        vals |-> << m_aac_audio_decoder[1].sampling_frequency >>] >>
               ELSE IF decodes
               THEN << [kind |-> "err", vals |-> << au_index, NbAus >>] >>
               ELSE << >>
           data ==
               IF GetIsDecodeData(flags)
               THEN << [kind |-> "data", vals |-> << au_index >>] >>
               ELSE << >>
       IN  /\ m_is_codec_error' =
                IF ~decodes THEN m_is_codec_error
                ELSE Update_is_codec_error(m_is_codec_error, au_index, is_error)
           /\ chan_out' = audio \o data
           /\ m_is_au_error' = IF au_index = 0 THEN FALSE ELSE m_is_au_error
    /\ sf_au' = sf_au + 1
    /\ sf_crc' = FALSE
    /\ UNCHANGED <<chan_pc, cif_i, m_aac_audio_decoder, m_super_frame_header,
                   m_is_firecode_error, m_is_rs_error, chan_calls, cif_log, sf_stage,
                   sf_errors, header_event>>

\* the record of the results of DecodeFrame, kept next to OnAccessUnit:
\* "none" until access unit 0 is decoded, then whether a decoded unit
\* since the latest decoded access unit 0 (itself included) failed
RecordDecodeFrame(is_error) ==
    LET decodes == GetIsDecodeAudio(flags) /\ m_aac_audio_decoder # << >>
    IN  codec_window' =
            IF ~decodes THEN codec_window
            ELSE IF sf_au = 0 \/ codec_window = "clean"
            THEN (IF is_error THEN "error" ELSE "clean")
            ELSE codec_window

\* the superframe is through: the frame processor returns
Frame_EndSuperframe ==
    /\ chan_pc = "frame"
    /\ sf_stage = "au" /\ sf_au = NbAus
    /\ sf_stage' = "ended"
    /\ FrameReturns
    /\ chan_out' = << >>
    /\ UNCHANGED <<chan_state, chan_calls, cif_log, sf_au, sf_crc, sf_errors, codec_window,
                   header_event>>

\* MOT_Entity: the header parameter the slideshow manager reads, and the
\* transport id
MOT_Entity(content_type, transport_id) ==
    [content_type |-> content_type, transport_id |-> transport_id]

ContentTypes == {"image/jpeg", "image/png", "text/html"}

TransportIds == {0, 1}

MOT_Entities ==
    { MOT_Entity(t, id) : t \in ContentTypes, id \in TransportIds }

\* Basic_Slideshow_Manager::Process_MOT_Entity: the slideshow made of an
\* image entity, << >> (nullptr) for any other entity
Process_MOT_Entity(entity) ==
    IF entity.content_type \in {"image/jpeg", "image/png"}
    THEN << [transport_id |-> entity.transport_id] >>
    ELSE << >>

\* the test of the MOT listener
MOT_Entity_IsRaw_Always(slideshow) == TRUE

MOT_Entity_IsRaw(slideshow) == slideshow = << >>

\* OnMOTUpdate: the PAD processor of the data decoder completes an entity
\* while the data decoder works on the access unit it was just given
OnMOTUpdate(entity) ==
    /\ chan_pc = "frame"
    /\ \E k \in 1..Len(chan_out) : chan_out[k].kind = "data"
    /\ LET slideshow == Process_MOT_Entity(entity)
           upgraded ==
               IF slideshow # << >>
               THEN << [kind |-> "slideshow", vals |-> << slideshow[1].transport_id >>] >>
               ELSE << >>
           raw ==
               IF MOT_Entity_IsRaw(slideshow)
               THEN << [kind |-> "mot_entity", vals |-> << entity.transport_id >>] >>
               ELSE << >>
       IN  chan_out' = upgraded \o raw
    /\ UNCHANGED <<chan_pc, cif_i, chan_state, frame_vars, chan_calls, cif_log>>

\* the owner of the channel changes its controls between two Process calls
\* (the flags are a plain uint8_t that the callbacks read)
SetControls(f) ==
    /\ chan_pc = "idle"
    /\ flags # f
    /\ flags' = f
    /\ UNCHANGED <<ctl_hist, chan_vars>>

ChanIdle ==
    /\ chan_pc = "off"
    /\ cif_i = 0
    /\ m_aac_audio_decoder = << >>
    /\ m_super_frame_header = << >>
    /\ m_is_codec_error = FALSE
    /\ m_is_firecode_error = FALSE
    /\ m_is_rs_error = FALSE
    /\ m_is_au_error = FALSE
    /\ chan_calls = << >>
    /\ chan_out = << >>
    /\ cif_log = << >>
    /\ sf_stage = "none"
    /\ sf_au = 0
    /\ sf_crc = FALSE
    /\ sf_errors = {}
    /\ codec_window = "none"
    /\ header_event = << >>

(***************************************************************************)
(* MOT_Assembler.  The class declaration gives the members, their initial  *)
(* values and GetData; the bodies of the other methods are not part of     *)
(* this source and follow their specification.  ReconstructOrderedBuffer   *)
(* is private and GetData does not call it: reconstructs says which method *)
(* does, the one that stores the last missing segment or the one that      *)
(* finds the object complete.                                              *)
(***************************************************************************)
\* most segments of an object
MaxSegments == 3

Segment == [unordered_index |-> 0, length |-> 0]

MOT_Assembler_New ==
    [m_unordered_buffer |-> << >>,
     m_ordered_buffer |-> << >>,
     m_segments |-> << >>,
     m_total_segments |-> 0,
     m_curr_unordered_index |-> 0]

MOT_Reset(a) == MOT_Assembler_New

SetTotalSegments(a, N) == [a EXCEPT !.m_total_segments = N]

\* the bytes of segments first .. last-1, in index order
RECURSIVE OrderedBytes(_, _, _)
OrderedBytes(a, first, last) ==
    IF first >= last THEN << >>
    ELSE LET segment == a.m_segments[first + 1]
         IN  SubSeq(a.m_unordered_buffer, segment.unordered_index + 1,
                    segment.unordered_index + segment.length)
               \o OrderedBytes(a, first + 1, last)

ReconstructOrderedBuffer(a) ==
    [a EXCEPT !.m_ordered_buffer = OrderedBytes(a, 0, a.m_total_segments)]

CheckComplete_IgnoresTotal(a) ==
    /\ Len(a.m_segments) >= a.m_total_segments
    /\ \A i \in 1..a.m_total_segments : a.m_segments[i].length # 0

CheckComplete(a) ==
    /\ a.m_total_segments # 0
    /\ Len(a.m_segments) >= a.m_total_segments
    /\ \A i \in 1..a.m_total_segments : a.m_segments[i].length # 0

\* AddSegment: the assembler after the call and the value returned
AddSegment(a, index, buf) ==
    LET N == Len(buf)
        segments ==
            IF index >= Len(a.m_segments)
            THEN a.m_segments \o [k \in 1..(index + 1 - Len(a.m_segments)) |-> Segment]
            ELSE a.m_segments
    IN  IF segments[index + 1].length # 0
        THEN [a |-> [a EXCEPT !.m_segments = segments], ret |-> FALSE]
        ELSE [a |-> [a EXCEPT
                       !.m_unordered_buffer = a.m_unordered_buffer \o buf,
                       !.m_segments = [segments EXCEPT ![index + 1] =
                            [unordered_index |-> a.m_curr_unordered_index,
                             length |-> N]],
                       !.m_curr_unordered_index = a.m_curr_unordered_index + N],
              ret |-> TRUE]

GetData_Unordered(a) == a.m_unordered_buffer

GetData(a) == a.m_ordered_buffer

\* the bytes a segment can carry
SegmentBytes(index) == { << 65 + index >>, << 65 + index, 97 + index >> }

MotInit ==
    /\ mot = MOT_Assembler_New
    /\ reconstructs \in {"AddSegment", "CheckComplete"}
    /\ mot_total = << >>
    /\ mot_received = << >>
    /\ mot_checked = << >>
    /\ mot_last = [op |-> "new", ret |-> << >>]

MotIdle ==
    /\ mot = MOT_Assembler_New
    /\ reconstructs = "CheckComplete"
    /\ mot_total = << >>
    /\ mot_received = << >>
    /\ mot_checked = << >>
    /\ mot_last = [op |-> "idle", ret |-> << >>]

AfterChange(a) ==
    IF reconstructs = "AddSegment" /\ CheckComplete(a)
    THEN ReconstructOrderedBuffer(a) ELSE a

Call_Reset ==
    /\ mot' = MOT_Reset(mot)
    /\ mot_total' = << >>
    /\ mot_received' = << >>
    /\ mot_checked' = << >>
    /\ mot_last' = [op |-> "Reset", ret |-> << >>]
    /\ UNCHANGED reconstructs

Call_SetTotalSegments(N) ==
    /\ mot' = AfterChange(SetTotalSegments(mot, N))
    /\ mot_total' = << N >>
    /\ mot_checked' = << >>
    /\ mot_last' = [op |-> "SetTotalSegments", ret |-> << >>]
    /\ UNCHANGED <<reconstructs, mot_received>>

\* mot_received: for every index a segment was given for, the bytes of the
\* first such segment
Call_AddSegment(index, buf) ==
    LET r == AddSegment(mot, index, buf)
        had == \E k \in 1..Len(mot_received) : mot_received[k].index = index
    IN  /\ mot' = AfterChange(r.a)
        /\ mot_received' = IF had THEN mot_received
                           ELSE Append(mot_received, [index |-> index, buf |-> buf])
        /\ mot_checked' = << >>
        /\ mot_last' = [op |-> "AddSegment", ret |-> << r.ret >>]
        /\ UNCHANGED <<reconstructs, mot_total>>

Call_CheckComplete ==
    LET complete == CheckComplete(mot)
    IN  /\ mot' = IF complete /\ reconstructs = "CheckComplete"
                  THEN ReconstructOrderedBuffer(mot) ELSE mot
        /\ mot_checked' = << complete >>
        /\ mot_last' = [op |-> "CheckComplete", ret |-> << complete >>]
        /\ UNCHANGED <<reconstructs, mot_total, mot_received>>

Call_GetData ==
    /\ mot_last' = [op |-> "GetData", ret |-> GetData(mot)]
    /\ UNCHANGED <<mot, reconstructs, mot_total, mot_received, mot_checked>>

(***************************************************************************)
(* PAD_MOT_Processor.  The class declaration gives the states and the      *)
(* members; the bodies of its methods are not part of this source and      *)
(* follow their specification: a length is announced, the next start       *)
(* segment begins a data group, the segments after it are concatenated     *)
(* until the announced number of bytes is there, and the complete group is *)
(* handed to the MSC XPAD decoder.                                         *)
(***************************************************************************)
State == {"WAIT_LENGTH", "WAIT_START", "READ_DATA"}

\* longest data group, longest segment, most groups handed over
MaxGroupLength == 3
MaxSegmentBytes == 2
MaxGroups == 2

PAD_Data_Group_New == [required |-> 0, buf |-> << >>]

\* the bytes of an X-PAD segment: those of a start segment are 10, 11, ..
\* and those of the others 20, 21, ..
SegmentOf(is_start_segment, N) == [k \in 1..N |-> (IF is_start_segment THEN 10 ELSE 20) + k - 1]

Min(a, b) == IF a < b THEN a ELSE b

\* which segments are left out: those that come before a length, and
\* those without is_start that come before the start segment
Consume_Skips_StartNotNeeded(st, is_start_segment) == st = "WAIT_LENGTH"

Consume_Skips(st, is_start_segment) ==
    \/ st = "WAIT_LENGTH"
    \/ st = "WAIT_START" /\ ~is_start_segment

PadInit ==
    /\ pad_state = "WAIT_LENGTH"
    /\ pad_data_group = PAD_Data_Group_New
    /\ pad_handed = << >>
    /\ pad_announced = << >>
    /\ pad_since_start = << >>

PadIdle ==
    /\ pad_state = "off"
    /\ pad_data_group = PAD_Data_Group_New
    /\ pad_handed = << >>
    /\ pad_announced = << >>
    /\ pad_since_start = << >>

\* SetGroupLength: pad_announced is the length announced last
SetGroupLength(length) ==
    /\ pad_state \in State
    /\ pad_data_group' = [required |-> length, buf |-> << >>]
    /\ pad_state' = "WAIT_START"
    /\ pad_announced' = << length >>
    /\ pad_since_start' = << >>
    /\ UNCHANGED pad_handed

\* ProcessXPAD with Consume and Interpret: pad_since_start is the sequence
\* of segments received from the latest start segment after the
\* announcement on, and each group handed over is recorded with the length
\* announced for it and the segments it was made from
ProcessXPAD(is_start_segment, N) ==
    /\ pad_state \in State
    /\ Len(pad_handed) < MaxGroups
    /\ LET buf == SegmentOf(is_start_segment, N)
       IN  IF Consume_Skips(pad_state, is_start_segment)
           THEN UNCHANGED <<pad_state, pad_data_group, pad_handed,
                            pad_announced, pad_since_start>>
           ELSE LET had == IF is_start_segment THEN << >> ELSE pad_data_group.buf
                    nb_read == Min(N, pad_data_group.required - Len(had))
                    now == had \o SubSeq(buf, 1, nb_read)
                    segments == IF is_start_segment THEN << buf >>
                                ELSE Append(pad_since_start, buf)
                IN  IF Len(now) >= pad_data_group.required
                    THEN /\ pad_handed' = Append(pad_handed,
                                [bytes |-> now, announced |-> pad_announced,
                                 segments |-> segments])
                         /\ pad_data_group' = PAD_Data_Group_New
                         /\ pad_state' = "WAIT_LENGTH"
                         /\ pad_announced' = << >>
                         /\ pad_since_start' = << >>
                    ELSE /\ pad_data_group' = [pad_data_group EXCEPT !.buf = now]
                         /\ pad_state' = "READ_DATA"
                         /\ pad_since_start' = segments
                         /\ UNCHANGED <<pad_handed, pad_announced>>

(***************************************************************************)
(* BasicThreadedChannel.  The class declaration gives the four flags and   *)
(* the three condition variables; the bodies of Start, Join, Stop and      *)
(* RunnerThread are not part of this source and follow their               *)
(* specification: Start signals the worker, the worker runs one frame and  *)
(* signals back, Join waits for that signal, Stop clears is_running, wakes *)
(* the worker and waits for it to exit.  A section under a mutex is one    *)
(* step; a wait on a condition variable is a step enabled by its flag.     *)
(***************************************************************************)
\* frames the ingesting thread dispatches
MaxFrames == 5

ThrInit ==
    /\ is_running = TRUE
    /\ is_terminated = FALSE
    /\ is_start = FALSE
    /\ is_join = FALSE
    /\ runner_pc = "BeforeRun"
    /\ caller_pc = "idle"
    /\ thr_frames = 0
    /\ thr_runs = 0
    /\ thr_stop_at = "none"

ThrIdle ==
    /\ is_running = FALSE
    /\ is_terminated = TRUE
    /\ is_start = FALSE
    /\ is_join = FALSE
    /\ runner_pc = "off"
    /\ caller_pc = "off"
    /\ thr_frames = 0
    /\ thr_runs = 0
    /\ thr_stop_at = "none"

\* is_join once Join has seen it set
Join_Leaves_is_join(flag) == flag

Join_Resets_is_join(flag) == FALSE

\* is_start once Stop has cleared is_running: Stop wakes the worker
Stop_Leaves_is_start(flag) == flag

Stop_Sets_is_start(flag) == TRUE

\* Start: the caller hands over a frame
Start ==
    /\ caller_pc \in {"idle", "joined"}
    /\ thr_frames < MaxFrames
    /\ is_start' = TRUE
    /\ thr_frames' = thr_frames + 1
    /\ caller_pc' = "started"
    /\ UNCHANGED <<is_running, is_terminated, is_join, runner_pc, thr_runs,
                   thr_stop_at>>

\* Join is called: a terminated worker is not waited for
Join_Call ==
    /\ caller_pc = "started"
    /\ caller_pc' = IF is_terminated THEN "joined" ELSE "Join"
    /\ UNCHANGED <<is_running, is_terminated, is_start, is_join, runner_pc,
                   thr_frames, thr_runs, thr_stop_at>>

\* Join returns from its wait on cv_join
Join_Return ==
    /\ caller_pc = "Join"
    /\ is_join
    /\ is_join' = Join_Resets_is_join(is_join)
    /\ caller_pc' = "joined"
    /\ UNCHANGED <<is_running, is_terminated, is_start, runner_pc,
                   thr_frames, thr_runs, thr_stop_at>>

\* Stop is called, between two frames or while a frame is with the worker
Stop_Call ==
    /\ caller_pc \in {"idle", "joined", "started"}
    /\ IF ~is_running
       THEN caller_pc' = "stopped" /\ UNCHANGED <<is_running, is_start>>
       ELSE /\ is_running' = FALSE
            /\ is_start' = Stop_Sets_is_start(is_start)
            /\ caller_pc' = "Stop"
    /\ thr_stop_at' = runner_pc
    /\ UNCHANGED <<is_terminated, is_join, runner_pc, thr_frames, thr_runs>>

\* Stop returns from its wait on cv_terminate
Stop_Return ==
    /\ caller_pc = "Stop"
    /\ is_terminated
    /\ caller_pc' = "stopped"
    /\ UNCHANGED <<is_running, is_terminated, is_start, is_join, runner_pc,
                   thr_frames, thr_runs, thr_stop_at>>

\* RunnerThread: BeforeRun, then the loop condition
RunnerThread_Loop ==
    /\ runner_pc \in {"BeforeRun", "loop"}
    /\ runner_pc' = IF is_running THEN "wait" ELSE "exit"
    /\ UNCHANGED <<is_running, is_terminated, is_start, is_join, caller_pc,
                   thr_frames, thr_runs, thr_stop_at>>

\* is_start once RunnerThread has seen it set
Wake_Leaves_is_start(flag) == flag

Wake_Resets_is_start(flag) == FALSE

\* RunnerThread returns from its wait on cv_start
RunnerThread_Wake ==
    /\ runner_pc = "wait"
    /\ is_start
    /\ is_start' = Wake_Resets_is_start(is_start)
    /\ runner_pc' = "woken"
    /\ UNCHANGED <<is_running, is_terminated, is_join, caller_pc,
                   thr_frames, thr_runs, thr_stop_at>>

\* RunnerThread looks at is_running again before it calls Run
RunnerThread_Check ==
    /\ runner_pc = "woken"
    /\ runner_pc' = IF is_running THEN "Run" ELSE "exit"
    /\ UNCHANGED <<is_running, is_terminated, is_start, is_join, caller_pc,
                   thr_frames, thr_runs, thr_stop_at>>

\* Run returns
RunnerThread_Run ==
    /\ runner_pc = "Run"
    /\ thr_runs' = thr_runs + 1
    /\ runner_pc' = "ran"
    /\ UNCHANGED <<is_running, is_terminated, is_start, is_join, caller_pc,
                   thr_frames, thr_stop_at>>

\* RunnerThread signals the end of the frame
RunnerThread_Signal ==
    /\ runner_pc = "ran"
    /\ is_join' = TRUE
    /\ runner_pc' = "loop"
    /\ UNCHANGED <<is_running, is_terminated, is_start, caller_pc,
                   thr_frames, thr_runs, thr_stop_at>>

\* RunnerThread leaves its loop
RunnerThread_Exit ==
    /\ runner_pc = "exit"
    /\ is_terminated' = TRUE
    /\ runner_pc' = "terminated"
    /\ UNCHANGED <<is_running, is_start, is_join, caller_pc, thr_frames,
                   thr_runs, thr_stop_at>>

(***************************************************************************)
(* Two FIC_Processor objects in ProcessFIBGroup.  encoded_bits,            *)
(* decoded_bits and decoded_bytes are static locals of the member          *)
(* function: one buffer of each for all objects and all threads.  A buffer *)
(* is modelled by the number of the FIB group whose data it holds (0:      *)
(* none yet); each loop of the function is one step, and the loop over the *)
(* FIBs is one step for each FIB; proc_parsed lists the FIBs a processor   *)
(* gave to ProcessFIG, each by its index and the group it belongs to.      *)
(* vitdec and scrambler are members.                                       *)
(***************************************************************************)
Processors == {1, 2}

\* the FIB groups the encoded input of a processor can stand for
StaticGroups == <<
    MakeFIB(Pad(FigLib[1]), 0) \o EmptyFIB \o MakeFIB(Pad(FigLib[6]), 0),
    MakeFIB(Pad(FigLib[3]), 0) \o MakeFIB(Pad(FigLib[1]), 1) \o EmptyFIB,
    MakeFIB(Pad(FigLib[15]), 65535) \o MakeFIB(Pad(FigLib[8]), 0)
        \o MakeFIB(Pad(FigLib[10]), 0) >>

GroupIds == 1..Len(StaticGroups)

\* the CRC check of FIB i of each group
StaticFIB ==
    [g \in GroupIds |->
        [i \in 0..(nb_fibs - 1) |-> FIB_is_valid(StaticGroups[g], i * nb_fib_bytes)]]

ShInit ==
    /\ static_encoded_bits = 0
    /\ static_decoded_bits = 0
    /\ static_decoded_bytes = 0
    /\ fib_is_valid = StaticFIB
    /\ proc_input \in [Processors -> GroupIds]
    /\ proc_pc = [p \in Processors |-> "called"]
    /\ proc_i = [p \in Processors |-> 0]
    /\ proc_parsed = [p \in Processors |-> << >>]

ShIdle ==
    /\ static_encoded_bits = 0
    /\ static_decoded_bits = 0
    /\ static_decoded_bytes = 0
    /\ fib_is_valid = << >>
    /\ proc_input = << >>
    /\ proc_pc = << >>
    /\ proc_i = << >>
    /\ proc_parsed = << >>

\* lines 128-134: the input is unpacked into encoded_bits
Static_Unpack(p) ==
    /\ proc_pc[p] = "called"
    /\ static_encoded_bits' = proc_input[p]
    /\ proc_pc' = [proc_pc EXCEPT ![p] = "unpacked"]
    /\ UNCHANGED <<fib_is_valid, static_decoded_bits, static_decoded_bytes, proc_input,
                   proc_i, proc_parsed>>

\* lines 149-175: the three passes decode encoded_bits into decoded_bits
Static_Decode(p) ==
    /\ proc_pc[p] = "unpacked"
    /\ static_decoded_bits' = static_encoded_bits
    /\ proc_pc' = [proc_pc EXCEPT ![p] = "decoded"]
    /\ UNCHANGED <<fib_is_valid, static_encoded_bits, static_decoded_bytes, proc_input,
                   proc_i, proc_parsed>>

\* lines 186-200: decoded_bits are packed into decoded_bytes and descrambled
Static_Pack(p) ==
    /\ proc_pc[p] = "decoded"
    /\ static_decoded_bytes' = static_decoded_bits
    /\ proc_pc' = [proc_pc EXCEPT ![p] = "fibs"]
    /\ proc_i' = [proc_i EXCEPT ![p] = 0]
    /\ UNCHANGED <<fib_is_valid, static_encoded_bits, static_decoded_bits, proc_input,
                   proc_parsed>>

\* lines 214-230: FIB i of decoded_bytes is checked and, if valid, parsed
Static_FIB(p) ==
    /\ proc_pc[p] = "fibs"
    /\ LET i == proc_i[p]
           is_valid == fib_is_valid[static_decoded_bytes][i]
       IN  /\ proc_parsed' = [proc_parsed EXCEPT ![p] =
                IF ~is_valid THEN @
                ELSE Append(@, [fib |-> i, group |-> static_decoded_bytes])]
           /\ proc_i' = [proc_i EXCEPT ![p] = i + 1]
           /\ proc_pc' = [proc_pc EXCEPT ![p] =
                IF i + 1 >= nb_fibs THEN "done" ELSE "fibs"]
    /\ UNCHANGED <<fib_is_valid, static_encoded_bits, static_decoded_bits,
                   static_decoded_bytes, proc_input>>

(***************************************************************************)
(* The loop bodies                                                         *)
(***************************************************************************)
\* the body of every loop, by the name of the loop
LoopStep(ctx, s) ==
    CASE ctx.loop = "CRC" -> CRC_Step(ctx.mem, ctx.buf, ctx.N, s)
      [] ctx.loop = "ProcessFIG" -> ProcessFIG_Step(ctx.mem, ctx.buf, s)
      [] ctx.loop = "Ext_1" -> Ext_1_Step(ctx.mem, ctx.buf, ctx.N, s)
      [] ctx.loop = "Ext_2" -> Ext_2_Step(ctx.mem, ctx.buf, ctx.N, ctx.pd, s)
      [] ctx.loop = "Ext_2_Components" ->
            Ext_2_Components_Step(ctx.mem, ctx.components_buf, ctx.sid,
                                  ctx.nb_service_components, s)
      [] ctx.loop = "Ext_8" -> Ext_8_Step(ctx.mem, ctx.buf, ctx.N, ctx.pd, s)
      [] ctx.loop = "Ext_13" -> Ext_13_Step(ctx.mem, ctx.buf, ctx.N, ctx.pd, s)
      [] ctx.loop = "Ext_13_Apps" ->
            Ext_13_Apps_Step(ctx.mem, ctx.apps_buf, ctx.sid_vals,
                             ctx.nb_user_apps, ctx.nb_remain_bytes, s)
      [] ctx.loop = "Ext_6" -> Ext_6_Step(ctx.mem, ctx.buf, ctx.N, ctx.pd, s)
      [] ctx.loop = "Ext_9" ->
            Ext_9_Step(ctx.mem, ctx.extended_buf, ctx.nb_ext_bytes, ctx.head, s)
      [] ctx.loop = "Ext_17" -> Ext_17_Step(ctx.mem, ctx.buf, ctx.N, ctx.pd, s)
      [] ctx.loop = "Ext_21" -> Ext_21_Step(ctx.mem, ctx.buf, ctx.N, s)
      [] ctx.loop = "Ext_21_Lists" ->
            Ext_21_Lists_Step(ctx.mem, ctx.fi_lists_buf, ctx.nb_fi_list_bytes,
                              ctx.Rfa0, ctx.curr_block, s)
      [] ctx.loop = "Ext_24" -> Ext_24_Step(ctx.mem, ctx.buf, ctx.N, ctx.pd, s)
      [] ctx.loop = "TxCrc" -> TxCrc_Step(ctx.data, s)
      [] ctx.loop = "update" ->
            Update_Step(ctx.punctured_symbols, ctx.puncture_code,
                        ctx.requested_output_symbols, s)
      [] ctx.loop = "Decode" ->
            Decode_Step(ctx.puncture_code, ctx.nb_puncture_bits,
                        ctx.nb_encoded, ctx.max_puncture_bits, s)

(***************************************************************************)
(* Specifications                                                          *)
(***************************************************************************)
ControlsInit == CtlInit /\ FicIdle /\ VitIdle /\ FicDecodeIdle /\ ChanIdle /\ MotIdle /\ PadIdle /\ ThrIdle /\ ShIdle

ControlsNext ==
    \/ CallRunAll /\ UNCHANGED <<fic_vars, vit_vars, fd_vars, chan_vars, mot_vars, pad_vars, thr_vars, sh_vars>>
    \/ CallStopAll /\ UNCHANGED <<fic_vars, vit_vars, fd_vars, chan_vars, mot_vars, pad_vars, thr_vars, sh_vars>>
    \/ \E v \in BOOLEAN :
          CallSetIsDecodeAudio(v) /\ UNCHANGED <<fic_vars, vit_vars, fd_vars, chan_vars, mot_vars, pad_vars, thr_vars, sh_vars>>
    \/ \E v \in BOOLEAN :
          CallSetIsDecodeData(v) /\ UNCHANGED <<fic_vars, vit_vars, fd_vars, chan_vars, mot_vars, pad_vars, thr_vars, sh_vars>>
    \/ \E v \in BOOLEAN :
          CallSetIsPlayAudio(v) /\ UNCHANGED <<fic_vars, vit_vars, fd_vars, chan_vars, mot_vars, pad_vars, thr_vars, sh_vars>>

SpecControls == ControlsInit /\ [][ControlsNext]_vars

FicGroupInit == CtlInit /\ FicInit /\ VitIdle /\ FicDecodeIdle /\ ChanIdle /\ MotIdle /\ PadIdle /\ ThrIdle /\ ShIdle

FicNext == ProcessFIBGroup /\ UNCHANGED <<ctl_vars, vit_vars, fd_vars, chan_vars, mot_vars, pad_vars, thr_vars, sh_vars>>

SpecFIC == FicGroupInit /\ [][FicNext]_vars

\* the identifier decoders on their own: four bytes, decoded as a short
\* and as a long service identifier and, by both operations, as an
\* ensemble identifier
IdBytes == {0, 1, 16, 171, 255}

IdBuffers == [1..4 -> IdBytes]

IdInit ==
    /\ decoded_bytes \in IdBuffers
    /\ heap_byte = 0
    /\ fic_pc = "ids"
    /\ fic_parsed = << >>
    /\ fic_out = << >>

DecodeIdentifiers ==
    /\ fic_pc = "ids"
    /\ fic_out' =
         [short |-> ServiceIdentifier_ProcessShortForm(decoded_bytes, 0),
          long |-> ServiceIdentifier_ProcessLongForm(decoded_bytes, 0),
          buffer |-> EnsembleIdentifier_ProcessBuffer(decoded_bytes, 0),
          u16 |-> EnsembleIdentifier_ProcessU16(
                      decoded_bytes[1] * 256 + decoded_bytes[2])]
    /\ fic_pc' = "done"
    /\ UNCHANGED <<decoded_bytes, heap_byte, fic_parsed>>

IdGroupInit == CtlInit /\ IdInit /\ VitIdle /\ FicDecodeIdle /\ ChanIdle /\ MotIdle /\ PadIdle /\ ThrIdle /\ ShIdle

IdNext == DecodeIdentifiers /\ UNCHANGED <<ctl_vars, vit_vars, fd_vars, chan_vars, mot_vars, pad_vars, thr_vars, sh_vars>>

SpecIdentifiers == IdGroupInit /\ [][IdNext]_vars

ViterbiInit == CtlInit /\ FicIdle /\ VitInit /\ FicDecodeIdle /\ ChanIdle /\ MotIdle /\ PadIdle /\ ThrIdle /\ ShIdle

ViterbiNext ==
    \E n \in SymbolCounts, code \in PunctureCodes, b \in 0..MaxBlocks :
        /\ Call_update(PuncturedSymbols(n), code, code_rate * b)
        /\ UNCHANGED <<ctl_vars, fic_vars, fd_vars, chan_vars, mot_vars, pad_vars, thr_vars, sh_vars>>

SpecViterbi == ViterbiInit /\ [][ViterbiNext]_vars

FicDecodeGroupInit == CtlInit /\ FicIdle /\ VitIdle /\ FicDecodeInit /\ ChanIdle /\ MotIdle /\ PadIdle /\ ThrIdle /\ ShIdle

FicDecodeNext ==
    \/ ProcessFIBGroup_Unpack /\ UNCHANGED <<ctl_vars, fic_vars, vit_vars, chan_vars, mot_vars, pad_vars, thr_vars, sh_vars>>
    \/ ProcessFIBGroup_PI_16 /\ UNCHANGED <<ctl_vars, fic_vars, vit_vars, chan_vars, mot_vars, pad_vars, thr_vars, sh_vars>>
    \/ ProcessFIBGroup_PI_15 /\ UNCHANGED <<ctl_vars, fic_vars, vit_vars, chan_vars, mot_vars, pad_vars, thr_vars, sh_vars>>
    \/ ProcessFIBGroup_PI_X /\ UNCHANGED <<ctl_vars, fic_vars, vit_vars, chan_vars, mot_vars, pad_vars, thr_vars, sh_vars>>

SpecFICDecode == FicDecodeGroupInit /\ [][FicDecodeNext]_vars

\* the buffer lengths Process is called with
BufferSizes == {0, nb_msc_bits, nb_msc_bits + nb_cif_bits}

ChanControls == flags \in ControlStates /\ ctl_hist = << >>

ChannelInit == ChanControls /\ FicIdle /\ VitIdle /\ FicDecodeIdle /\ ChanInit /\ MotIdle /\ PadIdle /\ ThrIdle /\ ShIdle

ChanOther == <<fic_vars, vit_vars, fd_vars, mot_vars, pad_vars, thr_vars, sh_vars>>

ChanRest == <<ctl_vars, fic_vars, vit_vars, fd_vars, mot_vars, pad_vars, thr_vars, sh_vars>>

ChannelNext ==
    \/ \E nb_bits \in BufferSizes : Process(nb_bits) /\ UNCHANGED ChanRest
    \/ \E empty \in BOOLEAN : Process_CIF(empty) /\ UNCHANGED ChanRest
    \/ Frame_NoEvent /\ UNCHANGED ChanRest
    \/ OnFirecodeError /\ UNCHANGED ChanRest
    \/ \E dropped \in BOOLEAN : OnRSError(dropped) /\ UNCHANGED ChanRest
    \/ \E header \in Headers : OnSuperFrameHeader(header) /\ UNCHANGED ChanRest
    \/ Frame_HeaderUnchanged /\ UNCHANGED ChanRest
    \/ OnAccessUnitCRCError /\ UNCHANGED ChanRest
    \/ Frame_DropAccessUnit /\ UNCHANGED ChanRest
    \/ \E is_error \in BOOLEAN :
          OnAccessUnit(is_error) /\ UNCHANGED codec_window /\ UNCHANGED ChanRest
    \/ Frame_EndSuperframe /\ UNCHANGED ChanRest
    \/ \E entity \in MOT_Entities : OnMOTUpdate(entity) /\ UNCHANGED ChanRest
    \/ \E f \in ControlStates : SetControls(f) /\ UNCHANGED ChanOther

SpecChannel == ChannelInit /\ [][ChannelNext]_vars

\* the audio path of the channel with the record of the results of
\* DecodeFrame (the MOT listener, which reads and writes nothing of the
\* audio path, is part of SpecChannel)
ChannelCodecNext ==
    \/ \E nb_bits \in BufferSizes : Process(nb_bits) /\ UNCHANGED ChanRest
    \/ \E empty \in BOOLEAN : Process_CIF(empty) /\ UNCHANGED ChanRest
    \/ Frame_NoEvent /\ UNCHANGED ChanRest
    \/ OnFirecodeError /\ UNCHANGED ChanRest
    \/ \E dropped \in BOOLEAN : OnRSError(dropped) /\ UNCHANGED ChanRest
    \/ \E header \in Headers : OnSuperFrameHeader(header) /\ UNCHANGED ChanRest
    \/ Frame_HeaderUnchanged /\ UNCHANGED ChanRest
    \/ OnAccessUnitCRCError /\ UNCHANGED ChanRest
    \/ Frame_DropAccessUnit /\ UNCHANGED ChanRest
    \/ \E is_error \in BOOLEAN :
          OnAccessUnit(is_error) /\ RecordDecodeFrame(is_error) /\ UNCHANGED ChanRest
    \/ Frame_EndSuperframe /\ UNCHANGED ChanRest
    \/ \E f \in ControlStates : SetControls(f) /\ UNCHANGED ChanOther

SpecChannelCodec == ChannelInit /\ [][ChannelCodecNext]_vars

\* the channel when the construction of an AAC decoder can fail
ChannelFailNext ==
    \/ ChannelNext
    \/ \E header \in Headers : OnSuperFrameHeader_Throws(header) /\ UNCHANGED ChanRest

SpecChannelFail == ChannelInit /\ [][ChannelFailNext]_vars

MotGroupInit == CtlInit /\ FicIdle /\ VitIdle /\ FicDecodeIdle /\ ChanIdle /\ MotInit /\ PadIdle /\ ThrIdle /\ ShIdle

MotRest == <<ctl_vars, fic_vars, vit_vars, fd_vars, chan_vars, pad_vars, thr_vars, sh_vars>>

MotNext ==
    \/ Call_Reset /\ UNCHANGED MotRest
    \/ \E N \in 1..MaxSegments : Call_SetTotalSegments(N) /\ UNCHANGED MotRest
    \/ \E index \in 0..(MaxSegments - 1) : \E buf \in SegmentBytes(index) :
          Call_AddSegment(index, buf) /\ UNCHANGED MotRest
    \/ Call_CheckComplete /\ UNCHANGED MotRest
    \/ Call_GetData /\ UNCHANGED MotRest

SpecMOT == MotGroupInit /\ [][MotNext]_vars

PadGroupInit == CtlInit /\ FicIdle /\ VitIdle /\ FicDecodeIdle /\ ChanIdle /\ MotIdle /\ PadInit /\ ThrIdle /\ ShIdle

PadRest == <<ctl_vars, fic_vars, vit_vars, fd_vars, chan_vars, mot_vars, thr_vars, sh_vars>>

PadNext ==
    \/ \E length \in 1..MaxGroupLength : SetGroupLength(length) /\ UNCHANGED PadRest
    \/ \E is_start_segment \in BOOLEAN, N \in 1..MaxSegmentBytes :
          ProcessXPAD(is_start_segment, N) /\ UNCHANGED PadRest

SpecPAD == PadGroupInit /\ [][PadNext]_vars

ThreadInit == CtlInit /\ FicIdle /\ VitIdle /\ FicDecodeIdle /\ ChanIdle /\ MotIdle /\ PadIdle /\ ThrInit /\ ShIdle

ThreadRest == <<ctl_vars, fic_vars, vit_vars, fd_vars, chan_vars, mot_vars, pad_vars, sh_vars>>

ThreadNext ==
    \/ Start /\ UNCHANGED ThreadRest
    \/ Join_Call /\ UNCHANGED ThreadRest
    \/ Join_Return /\ UNCHANGED ThreadRest
    \/ Stop_Call /\ UNCHANGED ThreadRest
    \/ Stop_Return /\ UNCHANGED ThreadRest
    \/ RunnerThread_Loop /\ UNCHANGED ThreadRest
    \/ RunnerThread_Wake /\ UNCHANGED ThreadRest
    \/ RunnerThread_Check /\ UNCHANGED ThreadRest
    \/ RunnerThread_Run /\ UNCHANGED ThreadRest
    \/ RunnerThread_Signal /\ UNCHANGED ThreadRest
    \/ RunnerThread_Exit /\ UNCHANGED ThreadRest

SpecThread == ThreadInit /\ [][ThreadNext]_vars

\* the scheduler lets the worker thread and a caller whose wait has ended
\* go on, and Run returns
RunnerThread ==
    \/ RunnerThread_Loop
    \/ RunnerThread_Wake
    \/ RunnerThread_Check
    \/ RunnerThread_Run
    \/ RunnerThread_Signal
    \/ RunnerThread_Exit

ThreadFairness ==
    /\ WF_vars(RunnerThread /\ UNCHANGED ThreadRest)
    /\ WF_vars(Join_Return /\ UNCHANGED ThreadRest)
    /\ WF_vars(Stop_Return /\ UNCHANGED ThreadRest)

SpecThreadLive == ThreadInit /\ [][ThreadNext]_vars /\ ThreadFairness

StaticInit == CtlInit /\ FicIdle /\ VitIdle /\ FicDecodeIdle /\ ChanIdle /\ MotIdle /\ PadIdle /\ ThrIdle /\ ShInit

StaticRest == <<ctl_vars, fic_vars, vit_vars, fd_vars, chan_vars, mot_vars, pad_vars, thr_vars>>

StaticNext ==
    \/ \E p \in Processors : Static_Unpack(p) /\ UNCHANGED StaticRest
    \/ \E p \in Processors : Static_Decode(p) /\ UNCHANGED StaticRest
    \/ \E p \in Processors : Static_Pack(p) /\ UNCHANGED StaticRest
    \/ \E p \in Processors : Static_FIB(p) /\ UNCHANGED StaticRest

SpecStatic == StaticInit /\ [][StaticNext]_vars

(***************************************************************************)
(* Properties of the control flags, under SpecControls                     *)
(***************************************************************************)
\* the latest call made on the controls
LastCall == ctl_hist[Len(ctl_hist)]

\* SetIsPlayAudio(true) applied to every value of the uint8_t flags
PlayAudioFromAnyFlags ==
    \A f \in 0..255 :
        /\ GetIsDecodeAudio(SetIsPlayAudio(f, TRUE))
        /\ GetIsPlayAudio(SetIsPlayAudio(f, TRUE))

\* C1: from any control-flag state, after SetIsPlayAudio(true) returns,
\* GetIsDecodeAudio() is true and GetIsPlayAudio() is true
C1_PlayAudioForcesDecodeAudio ==
    /\ PlayAudioFromAnyFlags
    /\ (ctl_hist # << >> /\ LastCall.op = "SetIsPlayAudio" /\ LastCall.arg)
          => (GetIsDecodeAudio(flags) /\ GetIsPlayAudio(flags))

\* SetIsPlayAudio(true) was just called while decode_audio was off
C1_Witness ==
    /\ ctl_hist # << >>
    /\ LastCall.op = "SetIsPlayAudio" /\ LastCall.arg
    /\ ~GetIsDecodeAudio(LastCall.before)
    /\ GetIsDecodeAudio(flags)

\* SetIsDecodeAudio(false) applied to every value of the uint8_t flags
NoDecodeAudioFromAnyFlags ==
    \A f \in 0..255 :
        /\ ~GetIsPlayAudio(SetIsDecodeAudio(f, FALSE))
        /\ ~GetIsDecodeAudio(SetIsDecodeAudio(f, FALSE))

\* C2: from any control-flag state, after SetIsDecodeAudio(false) returns,
\* GetIsPlayAudio() is false and GetIsDecodeAudio() is false
C2_NoDecodeAudioForcesNoPlayAudio ==
    /\ NoDecodeAudioFromAnyFlags
    /\ (ctl_hist # << >> /\ LastCall.op = "SetIsDecodeAudio" /\ ~LastCall.arg)
          => (~GetIsPlayAudio(flags) /\ ~GetIsDecodeAudio(flags))

\* SetIsDecodeAudio(false) was just called while play_audio was on
C2_Witness ==
    /\ ctl_hist # << >>
    /\ LastCall.op = "SetIsDecodeAudio" /\ ~LastCall.arg
    /\ GetIsPlayAudio(LastCall.before)
    /\ ~GetIsPlayAudio(flags)

\* the two latest calls were SetIsPlayAudio(true), then SetIsDecodeAudio(false)
PlayThenNoDecode ==
    /\ Len(ctl_hist) >= 2
    /\ ctl_hist[Len(ctl_hist) - 1].op = "SetIsPlayAudio"
    /\ ctl_hist[Len(ctl_hist) - 1].arg
    /\ LastCall.op = "SetIsDecodeAudio"
    /\ ~LastCall.arg

\* the sequence applied to every value of the uint8_t flags
PlayThenNoDecodeFromAnyFlags ==
    /\ \A f \in 0..255 :
          LET g == SetIsDecodeAudio(SetIsPlayAudio(f, TRUE), FALSE)
          IN  /\ ~GetIsDecodeAudio(g) /\ ~GetIsPlayAudio(g)
              /\ GetIsDecodeData(g) = GetIsDecodeData(f)
    /\ SetIsDecodeAudio(SetIsPlayAudio(0, TRUE), FALSE) = 0

\* C3: SetIsPlayAudio(true) followed by SetIsDecodeAudio(false) leaves both
\* audio flags clear and the decode_data flag as it was before the
\* sequence; starting from flags = 0 the result is flags = 0
C3_PlayThenNoDecodeClearsAudio ==
    /\ PlayThenNoDecodeFromAnyFlags
    /\ PlayThenNoDecode =>
          LET before == ctl_hist[Len(ctl_hist) - 1].before
          IN  /\ ~GetIsDecodeAudio(flags) /\ ~GetIsPlayAudio(flags)
              /\ GetIsDecodeData(flags) = GetIsDecodeData(before)
              /\ before = 0 => flags = 0

\* the sequence was run from flags = 0
C3_Witness ==
    /\ PlayThenNoDecode
    /\ ctl_hist[Len(ctl_hist) - 1].before = 0
    /\ GetIsPlayAudio(LastCall.before)
    /\ flags = 0

(***************************************************************************)
(* Properties of the FIC processor, under SpecFIC.  FIB i (0, 1, 2) of the *)
(* group is bytes 32i .. 32i+31 of decoded_bytes; the k-th ProcessFIG call *)
(* was made for FIB fic_parsed[k] and did fic_out[k].                      *)
(***************************************************************************)
\* byte j (from 0) of FIB i
FibByte(i, j) == decoded_bytes[32 * i + j + 1]

\* the first 30 bytes of FIB i
FibPayload(i) == [j \in 1..30 |-> decoded_bytes[32 * i + j]]

\* the ProcessFIG calls made for the group
Calls == 1..Len(fic_out)

\* the lines call k logged for the FIG whose header is at offset a
LinesAt(k, a) == { n \in 1..Len(fic_out[k].log) : fic_out[k].log[n].at = a }

\* call k logged a decoded entry
HasEntry(k) ==
    \E n \in 1..Len(fic_out[k].log) : fic_out[k].log[n].kind = "msg"

\* the byte at offset p of the FIB of call k is the header of a FIG that
\* has a handler and fits into the FIB
IsFigHeader(k, p) ==
    /\ p < 30
    /\ FibByte(fic_parsed[k], p) # 255
    /\ FibByte(fic_parsed[k], p) \div 32 \in {0, 1, 2, 6}
    /\ p + (FibByte(fic_parsed[k], p) % 32) + 1 <= 30

\* call k dispatched the FIG whose header is at offset p
DispatchedAt(k, p) ==
    \E n \in 1..Len(fic_out[k].dispatched) : fic_out[k].dispatched[n].at = p

\* C4: a FIB is handed to the FIG parser if and only if the CRC-16 (poly
\* 0x1021, init 0xFFFF, XOR-out 0xFFFF, no reflection) of its first 30 bytes
\* equals its last two bytes read big-endian; a FIB with altered last bytes
\* is not parsed and produces nothing
C4_CrcGate ==
    fic_pc = "done" =>
        /\ Len(fic_out) = Len(fic_parsed)
        /\ \A i \in 0..2 :
              (\E k \in 1..Len(fic_parsed) : fic_parsed[k] = i)
              <=> (FibByte(i, 30) * 256 + FibByte(i, 31) = TxCrcWord(FibPayload(i)))

\* a group with a FIB that was parsed and a FIB that was dropped
C4_Witness ==
    /\ fic_pc = "done"
    /\ Len(fic_parsed) \in {1, 2}
    /\ \E i \in 0..2 :
          /\ \A k \in 1..Len(fic_parsed) : fic_parsed[k] # i
          /\ FibByte(i, 30) * 256 + FibByte(i, 31) # TxCrcWord(FibPayload(i))

C6_ScanOrder ==
    fic_pc = "done" => \A k \in Calls :
        LET r == fic_out[k]
            i == fic_parsed[k]
            d == r.dispatched
            end == IF d = << >> THEN 0
                   ELSE d[Len(d)].at + d[Len(d)].len + 1
        IN  /\ d # << >> => d[1].at = 0
            /\ \A n \in 1..Len(d) :
                  /\ d[n].at < 30
                  /\ FibByte(i, d[n].at) # 255
                  /\ d[n].type = FibByte(i, d[n].at) \div 32
                  /\ d[n].type \in {0, 1, 2, 6}
                  /\ d[n].len = FibByte(i, d[n].at) % 32
                  /\ d[n].at + d[n].len + 1 <= 30
                  /\ n < Len(d) => d[n + 1].at = d[n].at + d[n].len + 1
            /\ \/ end = 30 /\ r.stop = "end"
               \/ /\ end < 30
                  /\ FibByte(i, end) = 255
                  /\ r.stop = "delimiter"
               \/ /\ end < 30
                  /\ FibByte(i, end) # 255
                  /\ end + (FibByte(i, end) % 32) + 1 > 30
                  /\ r.stop = "overflow"
               \/ /\ end < 30
                  /\ FibByte(i, end) # 255
                  /\ end + (FibByte(i, end) % 32) + 1 <= 30
                  /\ FibByte(i, end) \div 32 = 7
                  /\ r.stop = "type7"
               \/ /\ end < 30
                  /\ FibByte(i, end) # 255
                  /\ end + (FibByte(i, end) % 32) + 1 <= 30
                  /\ FibByte(i, end) \div 32 \in {3, 4, 5}
                  /\ r.stop = "reserved"

\* a scan that stopped at a type-7 FIG although a FIG follows it
C6_Witness ==
    /\ fic_pc = "done"
    /\ \E k \in Calls :
          /\ fic_out[k].stop = "type7"
          /\ fic_out[k].dispatched = << >>
          /\ FibByte(fic_parsed[k], 0) = 224
          /\ IsFigHeader(k, 1)

\* a logged line that reports a length overrun: of the FIG header, or of a
\* service of FIG 0/2 (whose other error, a reserved tmid, has one value)
IsOverrun(line) ==
    /\ line.kind = "err"
    /\ \/ line.fig = "fig" /\ Len(line.vals) = 2
       \/ line.fig = "0/2" /\ Len(line.vals) # 1

\* C7 as stated: any length overrun, at the FIG header level or inside a
\* FIG 0 extension handler, skips the remainder of the FIB: no later FIG of
\* the same FIB is dispatched
C7_AnyOverrunSkipsRest ==
    fic_pc = "done" => \A k \in Calls :
        \A n \in 1..Len(fic_out[k].log) :
            IsOverrun(fic_out[k].log[n]) =>
                \A d \in 1..Len(fic_out[k].dispatched) :
                    fic_out[k].dispatched[d].at <= fic_out[k].log[n].at

\* C7 as amended: a FIG whose header length overruns the FIB is not
\* dispatched, is reported, and the remainder of the FIB is skipped; an
\* overrun inside the FIG 0/2 handler aborts that FIG only, and the scan
\* continues with the next FIG of the FIB
C7_HeaderOverrunSkipsRest ==
    fic_pc = "done" => \A k \in Calls :
        LET r == fic_out[k]
            i == fic_parsed[k]
        IN  /\ \A d \in 1..Len(r.dispatched) :
                  r.dispatched[d].at + r.dispatched[d].len + 1 <= 30
            /\ \A p \in 0..29 :
                  (/\ p = 0 \/ \E d \in 1..Len(r.dispatched) :
                          r.dispatched[d].at + r.dispatched[d].len + 1 = p
                   /\ FibByte(i, p) # 255
                   /\ p + (FibByte(i, p) % 32) + 1 > 30)
                  => /\ r.stop = "overflow"
                     /\ r.log # << >>
                     /\ r.log[Len(r.log)].at = p
                     /\ r.log[Len(r.log)].fig = "fig"
                     /\ IsOverrun(r.log[Len(r.log)])
                     /\ \A d \in 1..Len(r.dispatched) : r.dispatched[d].at < p
            /\ \A n \in 1..Len(r.log) :
                  (IsOverrun(r.log[n]) /\ r.log[n].fig = "0/2") =>
                      \E d \in 1..Len(r.dispatched) :
                          /\ r.dispatched[d].at = r.log[n].at
                          /\ IsFigHeader(k, r.log[n].at + r.dispatched[d].len + 1)
                                => DispatchedAt(k, r.log[n].at + r.dispatched[d].len + 1)

\* a FIG 0/2 whose handler reported an overrun, and a later FIG of the same
\* FIB that was dispatched
C7_Witness ==
    /\ fic_pc = "done"
    /\ \E k \in Calls :
          \E n \in 1..Len(fic_out[k].log) :
              /\ IsOverrun(fic_out[k].log[n])
              /\ fic_out[k].log[n].fig = "0/2"
              /\ \E d \in 1..Len(fic_out[k].dispatched) :
                    fic_out[k].dispatched[d].at > fic_out[k].log[n].at

\* C8: a type-0 FIG whose extension is not implemented is silently
\* skipped: it logs neither an entry nor an error, and parsing continues
\* with the next FIG of the same FIB
C8_UnimplementedExtensionSkipped ==
    fic_pc = "done" => \A k \in Calls :
        LET r == fic_out[k]
            i == fic_parsed[k]
        IN  \A d \in 1..Len(r.dispatched) :
                (/\ r.dispatched[d].type = 0
                 /\ FibByte(i, r.dispatched[d].at + 1) % 32 \notin ImplementedExtensions)
                => /\ LinesAt(k, r.dispatched[d].at) = {}
                   /\ IsFigHeader(k, r.dispatched[d].at + r.dispatched[d].len + 1)
                         => DispatchedAt(k, r.dispatched[d].at + r.dispatched[d].len + 1)

\* a FIG 0/5 that was skipped, and the FIG after it that was dispatched
C8_Witness ==
    /\ fic_pc = "done"
    /\ \E k \in Calls :
          \E d \in 1..Len(fic_out[k].dispatched) :
              /\ fic_out[k].dispatched[d].type = 0
              /\ FibByte(fic_parsed[k], fic_out[k].dispatched[d].at + 1) % 32 = 5
              /\ d < Len(fic_out[k].dispatched)
              /\ LinesAt(k, fic_out[k].dispatched[d + 1].at) # {}

\* the FIG data field (after the FIG header at offset a) of the FIB of
\* call k starts with the bytes of buffer
FigDataIs(k, a, buffer) ==
    \A j \in 1..Len(buffer) : FibByte(fic_parsed[k], a + j) = buffer[j]

\* the FIG 0/0 entry that call k logged for the FIG at offset a has these
\* values
Fig00Entry(k, a, country_id, ensemble_reference, cif_upper, cif_lower) ==
    \E n \in LinesAt(k, a) :
        /\ fic_out[k].log[n].kind = "msg"
        /\ fic_out[k].log[n].fig = "0/0"
        /\ fic_out[k].log[n].vals[1] = country_id
        /\ fic_out[k].log[n].vals[2] = ensemble_reference
        /\ fic_out[k].log[n].vals[5] = cif_upper
        /\ fic_out[k].log[n].vals[6] = cif_lower

C10_Fig00AcceptsBothLengths ==
    fic_pc = "done" => \A k \in Calls :
        \A d \in 1..Len(fic_out[k].dispatched) :
            (/\ fic_out[k].dispatched[d].type = 0
             /\ FibByte(fic_parsed[k], fic_out[k].dispatched[d].at + 1) % 32 = 0
             /\ fic_out[k].dispatched[d].len \in {5, 6})
            => \E n \in LinesAt(k, fic_out[k].dispatched[d].at) :
                  /\ fic_out[k].log[n].kind = "msg"
                  /\ fic_out[k].log[n].fig = "0/0"

\* call k logged, for the FIG 0/10 whose header is at offset a, an entry with
\* these values
Fig010Entry(k, a, MJD, hours, minutes) ==
    \E n \in LinesAt(k, a) :
        /\ fic_out[k].log[n].kind = "msg"
        /\ fic_out[k].log[n].fig = "0/10"
        /\ fic_out[k].log[n].vals[2] = MJD
        /\ fic_out[k].log[n].vals[6] = hours
        /\ fic_out[k].log[n].vals[7] = minutes

\* C11: FIG 0/10 decodes MJD as the 17-bit field that follows the first
\* (rfu) bit, hours as the 5-bit field after the LSI/Rfa/UTC flags and
\* minutes as the next 6 bits, for every input; the field
\* [0x37, 0xC6, 0x08, 0x12, 0x34] yields MJD = 59776, hours = 1,
\* minutes = 52
C11_Fig010Decode ==
    fic_pc = "done" => \A k \in Calls :
        LET r == fic_out[k]
            i == fic_parsed[k]
        IN  /\ \A n \in 1..Len(r.log) :
                  (r.log[n].kind = "msg" /\ r.log[n].fig = "0/10") =>
                      LET a == r.log[n].at
                          b0 == FibByte(i, a + 2)
                          b1 == FibByte(i, a + 3)
                          b2 == FibByte(i, a + 4)
                          b3 == FibByte(i, a + 5)
                      IN  /\ r.log[n].vals[2] =
                                (b0 % 128) * 1024 + b1 * 4 + b2 \div 64
                          /\ r.log[n].vals[6] = (b2 % 8) * 4 + b3 \div 64
                          /\ r.log[n].vals[7] = b3 % 64
            /\ \A d \in 1..Len(r.dispatched) :
                  (/\ r.dispatched[d].type = 0
                   /\ r.dispatched[d].len = 6
                   /\ FigDataIs(k, r.dispatched[d].at, << 10, 55, 198, 8, 18, 52 >>))
                  => Fig010Entry(k, r.dispatched[d].at, 59776, 1, 52)

(***************************************************************************)
(* Properties of DAB_Viterbi_Decoder::update, under SpecViterbi            *)
(***************************************************************************)
\* the puncture flag of output position i (from 0) of call c, the phase
\* starting at 0
PunctureFlag(c, i) == c.puncture_code[(i % Len(c.puncture_code)) + 1] # 0

\* how many positions before i have a nonzero flag
ConsumedBefore(c, i) == Cardinality({ j \in 0..(i - 1) : PunctureFlag(c, j) })

\* the input of call c has a symbol for every nonzero flag
SufficientInput(c) ==
    ConsumedBefore(c, c.requested_output_symbols) <= Len(c.punctured_symbols)

\* C12: update with requested_output_symbols a multiple of 4 and sufficient
\* input hands the decoder core exactly requested_output_symbols symbols:
\* position i holds the next input symbol not yet consumed when the cyclic
\* puncture flag of i is nonzero and the neutral value otherwise, the phase
\* starting at 0 on every call; it returns the number of positions with a
\* nonzero flag
C12_UpdateDepunctures ==
    vit_call # << >> =>
        LET c == vit_call[1]
            n == c.requested_output_symbols
        IN  (n % 4 = 0 /\ SufficientInput(c)) =>
                /\ vit_pc = "ready"
                /\ Len(c.handed) = 1
                /\ Len(c.handed[1]) = n
                /\ \A i \in 0..(n - 1) :
                      c.handed[1][i + 1] =
                          IF PunctureFlag(c, i)
                          THEN c.punctured_symbols[ConsumedBefore(c, i) + 1]
                          ELSE soft_decision_unpunctured
                /\ c.returned = ConsumedBefore(c, n)

\* a call with a code of 3 flags that asked for 4 symbols and consumed 3,
\* made after a call that asked for 8
C12_Witness ==
    /\ vit_call # << >>
    /\ vit_pc = "ready"
    /\ Len(vit_call[1].puncture_code) = 3
    /\ vit_call[1].requested_output_symbols = 4
    /\ vit_call[1].returned = 3
    /\ Len(vit_call[1].handed) = 1
    /\ Len(depunctured_symbols) = 8

(***************************************************************************)
(* Properties of the Viterbi passes of ProcessFIBGroup, under              *)
(* SpecFICDecode                                                           *)
(***************************************************************************)
\* call n on vitdec is a Decode with these arguments
IsDecode(n, code, nb_puncture_bits, max_puncture_bits, is_end) ==
    /\ vitdec_calls[n].op = "Decode"
    /\ vitdec_calls[n].code = code
    /\ vitdec_calls[n].nb_puncture_bits = nb_puncture_bits
    /\ vitdec_calls[n].max_puncture_bits = max_puncture_bits
    /\ vitdec_calls[n].is_end = is_end

LatestCall(calls) == calls[Len(calls)]

IsNotification(line) == line.kind \in {"audio", "data"}

\* C14: a Process call whose buffer length differs from nb_msc_bits ends
\* before the loop: it decodes no CIF, notifies nothing and leaves the
\* channel's state as it was, whatever the control flags; a call with the
\* right length is processed whenever a control flag is set, also right
\* after a call that was refused.
C14_SizeMismatchAborts ==
    [][ \A nb_bits \in BufferSizes : (Process(nb_bits) /\ UNCHANGED ChanRest) =>
          LET call == LatestCall(chan_calls')
          IN  IF nb_bits # nb_msc_bits
              THEN /\ call.did = "size_error"
                   /\ chan_pc' = "idle"
                   /\ UNCHANGED <<chan_state, frame_vars, cif_i, flags>>
                   /\ \A k \in 1..Len(chan_out') : ~IsNotification(chan_out'[k])
              ELSE IF GetAnyEnabled(flags)
              THEN call.did = "processed" /\ chan_pc' = "cif" /\ cif_i' = 0
              ELSE call.did = "disabled" /\ chan_pc' = "idle" ]_vars

\* a refused call between two superframes, and the next call at work
C14_Witness ==
    /\ Len(chan_calls) = 2
    /\ chan_calls[1].did = "size_error"
    /\ chan_calls[2].did = "processed"
    /\ m_super_frame_header # << >>
    /\ chan_pc = "frame"

C16_FlagsOfThisSuperframe ==
    sf_stage = "ended" =>
        /\ m_is_firecode_error => "firecode" \in sf_errors
        /\ m_is_rs_error => "rs" \in sf_errors
        /\ m_is_au_error => "au" \in sf_errors

(***************************************************************************)
(* Properties of MOT_Assembler, under SpecMOT                              *)
(***************************************************************************)
ReceivedIndices == { mot_received[k].index : k \in 1..Len(mot_received) }

ReceivedBytes(index) ==
    (CHOOSE r \in { mot_received[k] : k \in 1..Len(mot_received) } :
        r.index = index).buf

\* the bytes of segments first .. last-1 as they were received
RECURSIVE ExpectedBytes(_, _)
ExpectedBytes(first, last) ==
    IF first >= last THEN << >>
    ELSE ReceivedBytes(first) \o ExpectedBytes(first + 1, last)

RECURSIVE Concatenated(_)
Concatenated(segments) ==
    IF segments = << >> THEN << >>
    ELSE Head(segments) \o Concatenated(Tail(segments))

IsStartSegment(buf) == buf[1] < 20

\* C19: a data group is handed to the MSC XPAD decoder only after a length
\* was announced, a start segment began the group and the segments from it
\* on, the first a start segment and none left out, made up exactly the
\* announced number of bytes; segments without is_start that arrive while
\* the processor waits for a start are not accumulated; a complete group
\* is handed over once, and the processor then waits for a length again.
C19_HandOver ==
    /\ \A k \in 1..Len(pad_handed) :
         LET g == pad_handed[k]
         IN  /\ g.announced # << >>
             /\ Len(g.bytes) = g.announced[1]
             /\ g.segments # << >>
             /\ IsStartSegment(g.segments[1])
             /\ g.bytes = SubSeq(Concatenated(g.segments), 1, g.announced[1])
             /\ Len(Concatenated(SubSeq(g.segments, 1, Len(g.segments) - 1)))
                  < g.announced[1]
    /\ pad_state = "WAIT_LENGTH" =>
         pad_announced = << >> /\ pad_data_group.buf = << >>
    /\ pad_state = "WAIT_START" =>
         pad_announced # << >> /\ pad_data_group.buf = << >>
    /\ pad_state = "READ_DATA" =>
         /\ pad_announced = << pad_data_group.required >>
         /\ pad_since_start # << >>
         /\ IsStartSegment(pad_since_start[1])
         /\ pad_data_group.buf = Concatenated(pad_since_start)
         /\ Len(pad_data_group.buf) < pad_data_group.required

\* a group of three bytes made from a start segment and a later segment
C19_Witness ==
    /\ Len(pad_handed) = MaxGroups
    /\ pad_handed[2].announced = << 3 >>
    /\ Len(pad_handed[2].segments) = 2
    /\ pad_handed[2].bytes = << 10, 11, 20 >>

(***************************************************************************)
(* Properties of BasicThreadedChannel, under SpecThread                    *)
(***************************************************************************)
\* C20: when a Join called after Start returns from its wait, the worker
\* has finished Run for the frame handed over by that Start; Join never
\* returns while that Run is still executing.
C20_JoinAfterRun ==
    [][ (caller_pc = "Join" /\ caller_pc' = "joined") =>
          /\ runner_pc # "Run"
          /\ thr_runs = thr_frames ]_vars

\* Join has returned for the second frame
C20_Witness ==
    /\ caller_pc = "joined"
    /\ thr_frames = 2
    /\ thr_runs = 2
    /\ ~is_terminated

\* C21: Stop clears is_running and wakes the worker, and a Stop that was
\* called returns, with the worker thread exited, wherever the worker was:
\* waiting for a Start, inside Run (which is then completed) or past it;
\* once Stop has returned no Run begins.
C21_StopTerminates ==
    /\ (caller_pc = "Stop") ~> (caller_pc = "stopped")
    /\ [](caller_pc = "Stop" => ~is_running)
    /\ [](caller_pc = "stopped" =>
            /\ runner_pc = "terminated"
            /\ is_terminated
            /\ thr_stop_at \in {"Run", "ran"} => thr_runs = thr_frames)

\* Stop was called while the worker was inside Run, and has returned
C21_Witness ==
    /\ caller_pc = "stopped"
    /\ thr_stop_at = "Run"
    /\ runner_pc = "terminated"
    /\ thr_runs = thr_frames

\* C22: for every Start and its Join, Run is executed exactly once between
\* the Start and the return of the Join: the worker is never a frame ahead
\* or more than one behind, every frame handed over has been run when its
\* Join returns, and a Join that waits does return.
C22_RunOncePerFrame ==
    /\ [](thr_runs <= thr_frames /\ thr_frames <= thr_runs + 1)
    /\ [](caller_pc \in {"idle", "joined"} => thr_runs = thr_frames)
    /\ [](caller_pc = "Join" /\ thr_runs = thr_frames => is_join \/ runner_pc = "ran")
    /\ (caller_pc = "Join") ~> (caller_pc = "joined")

\* the third frame is with the worker, the first two were run once each
C22_Witness ==
    /\ caller_pc = "Join"
    /\ thr_frames = 3
    /\ thr_runs = 2
    /\ runner_pc = "Run"

(***************************************************************************)
(* Properties of two FIC_Processor objects, under SpecStatic               *)
(***************************************************************************)
\* the FIBs a processor hands to ProcessFIG when it has its input to itself
OwnFIBs(g, n) ==
    { [fib |-> i, group |-> g] :
        i \in { j \in 0..(n - 1) : fib_is_valid[g][j] } }

\* C23 as stated: what a FIC_Processor validates and parses in
\* ProcessFIBGroup are the valid FIBs of its own input, whatever another
\* FIC_Processor does at the same time.
C23_InstancesIndependent ==
    \A p \in Processors :
        proc_pc[p] \in {"fibs", "done"} =>
            { proc_parsed[p][k] : k \in 1..Len(proc_parsed[p]) }
                = OwnFIBs(proc_input[p], proc_i[p])

(***************************************************************************)
(* C24: a completed MOT entity delivered to the channel has exactly one of *)
(* two outcomes: the slideshow manager makes a slideshow of it and the     *)
(* MOT-entity observer is not notified, or the manager returns no          *)
(* slideshow and the MOT-entity observer is notified of the raw entity;    *)
(* never both and never neither.                                           *)
(***************************************************************************)
Outcomes(out, kind) == { k \in 1..Len(out) : out[k].kind = kind }

C24_SlideshowOrEntity ==
    [][\A entity \in MOT_Entities :
         (OnMOTUpdate(entity) /\ UNCHANGED ChanRest) =>
            /\ Cardinality(Outcomes(chan_out', "slideshow"))
                 + Cardinality(Outcomes(chan_out', "mot_entity")) = 1
            /\ Outcomes(chan_out', "slideshow") # {}
                 <=> Process_MOT_Entity(entity) # << >>
            /\ \A k \in Outcomes(chan_out', "mot_entity") :
                 chan_out'[k].vals = << entity.transport_id >>]_vars

C24_Witness ==
    /\ Outcomes(chan_out, "slideshow") # {}
    /\ Outcomes(chan_out, "mot_entity") = {}

C24_WitnessRaw ==
    /\ Outcomes(chan_out, "mot_entity") # {}
    /\ Outcomes(chan_out, "slideshow") = {}

(***************************************************************************)
(* C25: a Process call made while no control bit is set decodes no CIF,    *)
(* gives nothing to the frame processor, notifies no observer and leaves   *)
(* the state of the channel and of its decoders as it was; a call with a   *)
(* frame made once any control bit is set enters the loop over the CIFs,   *)
(* also right after a call that found the channel idle.                    *)
(***************************************************************************)
NoControlBit(f) ==
    ~GetIsDecodeAudio(f) /\ ~GetIsDecodeData(f) /\ ~GetIsPlayAudio(f)

C25_IdleWithoutControls ==
    [][\A nb_bits \in BufferSizes :
         (Process(nb_bits) /\ UNCHANGED ChanRest) =>
            IF NoControlBit(flags)
            THEN /\ chan_pc' = "idle"
                 /\ cif_log' = << >>
                 /\ UNCHANGED <<chan_state, frame_vars, cif_i>>
                 /\ \A k \in 1..Len(chan_out') : ~IsNotification(chan_out'[k])
            ELSE nb_bits = nb_msc_bits =>
                 /\ chan_pc' = "cif" /\ cif_i' = 0
                 /\ LatestCall(chan_calls').did = "processed"]_vars

\* a frame is in work right after a call that found the channel idle
C25_Witness ==
    /\ Len(chan_calls) = 2
    /\ chan_calls[1].did = "disabled"
    /\ chan_calls[2].did = "processed"
    /\ chan_pc = "frame"

(***************************************************************************)
(* C26 as stated: every access unit goes to the data decoder exactly when  *)
(* decode_data is set, whatever decode_audio is, whether there is an audio *)
(* decoder and whether it failed on the access unit; and when the          *)
(* construction of an AAC decoder fails, decode_audio is off afterwards.   *)
(***************************************************************************)
DataFollowsDecodeData ==
    \A is_error \in BOOLEAN :
        (OnAccessUnit(is_error) /\ UNCHANGED ChanRest) =>
            /\ Outcomes(chan_out', "data") # {} <=> GetIsDecodeData(flags)
            /\ Cardinality(Outcomes(chan_out', "data")) <= 1
            /\ \A k \in Outcomes(chan_out', "data") : chan_out'[k].vals = << sf_au >>

FailureDisablesAudio ==
    \A header \in Headers :
        (OnSuperFrameHeader_Throws(header) /\ UNCHANGED ChanRest) =>
            ~GetIsDecodeAudio(flags')

C26_AudioFailureKeepsData == [][DataFollowsDecodeData /\ FailureDisablesAudio]_vars

\* the half of C26 about the access units, on its own
C26_DataOnly == [][DataFollowsDecodeData]_vars

\* an access unit the audio decoder failed on went to the data decoder
C26_DataAfterAudioError ==
    /\ Outcomes(chan_out, "err") # {}
    /\ Outcomes(chan_out, "data") # {}
    /\ chan_pc = "frame"

(***************************************************************************)
(* C27: a Process call gives the CIFs of its frame to the MSC decoder in   *)
(* increasing index order, CIF i being the bits [i*nb_cif_bits,            *)
(* (i+1)*nb_cif_bits) of the buffer; a CIF that yields no bytes is skipped *)
(* and the CIFs after it are still decoded, in their order; an access unit *)
(* is notified only while the frame processor works on the bytes of the    *)
(* CIF decoded last, so access units leave in the order of their CIFs.     *)
(***************************************************************************)
C27_CIFsInOrder ==
    /\ Len(cif_log) <= nb_cifs
    /\ \A k \in 1..Len(cif_log) :
         /\ cif_log[k].cif_buf.offset = (k - 1) * nb_cif_bits
         /\ cif_log[k].cif_buf.count = nb_cif_bits
         /\ cif_log[k].cif_buf.offset + cif_log[k].cif_buf.count <= nb_msc_bits
    /\ chan_pc = "cif" => cif_i = Len(cif_log)
    /\ chan_pc = "frame" =>
         /\ Len(cif_log) = cif_i + 1
         /\ cif_log[Len(cif_log)].fed
    /\ (chan_pc = "idle" /\ chan_calls # << >>) =>
         Len(cif_log) = IF LatestCall(chan_calls).did = "processed"
                        THEN nb_cifs ELSE 0
    /\ \A k \in 1..Len(chan_out) :
         IsNotification(chan_out[k]) => chan_pc = "frame"

\* an access unit of the last CIF, after a CIF that was skipped
C27_Witness ==
    /\ chan_pc = "frame"
    /\ Len(cif_log) = nb_cifs
    /\ ~cif_log[1].fed
    /\ Outcomes(chan_out, "data") # {}

(***************************************************************************)
(* C30 as stated: a call of update that comes to a nonzero puncture flag   *)
(* when every input symbol is consumed returns 0 and hands nothing to the  *)
(* decoder core.                                                           *)
(***************************************************************************)
C30_ExhaustedReturnsZero ==
    vit_call # << >> =>
        LET c == vit_call[1]
        IN  ~SufficientInput(c) =>
                /\ vit_pc = "ready"
                /\ c.returned = 0
                /\ c.handed = << >>

\* C30: such a call hands nothing to the decoder core, no partial block
\* either; in a build with NDEBUG it returns 0 and the decoder can be
\* called again, in a build without NDEBUG the assert of line 1559 ends the
\* program instead.
C30_ExhaustedFeedsNothing ==
    vit_call # << >> =>
        LET c == vit_call[1]
        IN  ~SufficientInput(c) =>
                /\ c.handed = << >>
                /\ IF ndebug
                   THEN vit_pc = "ready" /\ c.returned = 0
                   ELSE vit_pc = "aborted"

\* a call that had consumed three symbols and written five positions when
\* the input ran out, with NDEBUG
C30_Witness ==
    /\ vit_call # << >>
    /\ ndebug
    /\ ~SufficientInput(vit_call[1])
    /\ Len(vit_call[1].punctured_symbols) = 3
    /\ vit_call[1].requested_output_symbols = 2 * code_rate
    /\ vit_call[1].returned = 0
    /\ vit_pc = "ready"

(***************************************************************************)
(* C29 as stated: the FIBs of a group are checked and parsed one by one   *)
(* in index order 0, 1, 2: FIB i is parsed exactly when its own CRC is     *)
(* right, and what its parse yields is what the parse of its 32 bytes on   *)
(* their own, from byte 0, yields; a FIB with a wrong CRC and a FIB whose  *)
(* parse ends early change nothing for the FIBs before and after it.       *)
(***************************************************************************)
FibOf(group, i) == SubSeq(group, i * nb_fib_bytes + 1, (i + 1) * nb_fib_bytes)

ValidFibs(group) == { i \in 0..(nb_fibs - 1) : FIB_is_valid(FibOf(group, i), 0) }

C29_FIBsIndependent ==
    fic_pc = "done" =>
        /\ Len(fic_parsed) = Cardinality(ValidFibs(decoded_bytes))
        /\ Len(fic_out) = Len(fic_parsed)
        /\ \A k \in 1..Len(fic_parsed) :
             /\ fic_parsed[k] \in ValidFibs(decoded_bytes)
             /\ k > 1 => fic_parsed[k - 1] < fic_parsed[k]
             /\ fic_out[k] = ProcessFIG(FibOf(decoded_bytes, fic_parsed[k]), 0)

\* the same, for the groups in which no type-0 FIG of data length 0 is
\* dispatched
C29_WithoutEmptyFig ==
    (fic_pc = "done" /\ \A k \in 1..Len(fic_out) :
        \A j \in 1..Len(fic_out[k].dispatched) :
            ~(fic_out[k].dispatched[j].type = 0 /\ fic_out[k].dispatched[j].len = 0))
    => C29_FIBsIndependent

\* FIB 0 ends its parse at a length overrun, FIB 1 has a wrong CRC, FIB 2
\* is parsed and yields its date
C29_Witness ==
    /\ fic_pc = "done"
    /\ decoded_bytes = MakeFIB(Pad(FigLib[12]), 0) \o MakeFIB(Pad(FigLib[3]), 1)
                         \o MakeFIB(Pad(FigLib[15]), 0)
    /\ fic_parsed = << 0, 2 >>
    /\ fic_out[1].stop = "overflow" /\ fic_out[1].dispatched = << >>
    /\ fic_out[2].stop = "delimiter" /\ Len(fic_out[2].dispatched) = 1

(***************************************************************************)
(* Further properties of the control flags, under SpecControls             *)
(***************************************************************************)
\* the bits of the uint8_t flags that are none of the three control bits
OtherBits(f) == BitAnd(f, 255 - CONTROL_FLAG_ALL_SELECTED)

\* C31: in every state reached from flags = 0 by calls of RunAll, StopAll,
\* SetIsDecodeAudio, SetIsDecodeData and SetIsPlayAudio, play_audio set
\* implies decode_audio set, and no bit outside the three control bits is
\* set.
C31_PlayImpliesDecode ==
    /\ GetIsPlayAudio(flags) => GetIsDecodeAudio(flags)
    /\ OtherBits(flags) = 0

\* RunAll, then SetIsDecodeAudio(false): only decode_data is left
C31_Witness ==
    /\ Len(ctl_hist) = 2
    /\ ctl_hist[1].op = "RunAll"
    /\ ctl_hist[2].op = "SetIsDecodeAudio" /\ ~ctl_hist[2].arg
    /\ flags = CONTROL_FLAG_DECODE_DATA

\* the bits in which two values of flags differ
ChangedBits(f, g) == BitXor(f, g)

\* the setters applied to every value of the uint8_t flags
SettersFromAnyFlags ==
    \A f \in 0..255 : \A v \in BOOLEAN :
        /\ BitAnd(ChangedBits(f, SetIsDecodeData(f, v)),
                  255 - CONTROL_FLAG_DECODE_DATA) = 0
        /\ BitAnd(ChangedBits(f, SetIsDecodeAudio(f, TRUE)),
                  255 - CONTROL_FLAG_DECODE_AUDIO) = 0
        /\ BitAnd(ChangedBits(f, SetIsPlayAudio(f, FALSE)),
                  255 - CONTROL_FLAG_PLAY_AUDIO) = 0
        /\ GetIsDecodeData(SetIsDecodeAudio(f, v)) = GetIsDecodeData(f)
        /\ GetIsDecodeData(SetIsPlayAudio(f, v)) = GetIsDecodeData(f)

\* C32: SetIsDecodeData(v) changes no bit but decode_data;
\* SetIsDecodeAudio(true) changes no bit but decode_audio and
\* SetIsPlayAudio(false) no bit but play_audio; SetIsDecodeAudio and
\* SetIsPlayAudio leave decode_data as it was.
C32_SettersChangeOwnBit ==
    /\ SettersFromAnyFlags
    /\ ctl_hist # << >> =>
         LET changed == ChangedBits(LastCall.before, LastCall.after)
         IN  /\ LastCall.after = flags
             /\ LastCall.op = "SetIsDecodeData" =>
                  /\ BitAnd(changed, 255 - CONTROL_FLAG_DECODE_DATA) = 0
                  /\ GetIsDecodeData(flags) = LastCall.arg
             /\ (LastCall.op = "SetIsDecodeAudio" /\ LastCall.arg) =>
                  /\ BitAnd(changed, 255 - CONTROL_FLAG_DECODE_AUDIO) = 0
                  /\ GetIsDecodeAudio(flags)
             /\ (LastCall.op = "SetIsPlayAudio" /\ ~LastCall.arg) =>
                  /\ BitAnd(changed, 255 - CONTROL_FLAG_PLAY_AUDIO) = 0
                  /\ ~GetIsPlayAudio(flags)
             /\ LastCall.op \in {"SetIsDecodeAudio", "SetIsPlayAudio"} =>
                  GetIsDecodeData(flags) = GetIsDecodeData(LastCall.before)

\* SetIsPlayAudio(false) called with all three bits set
C32_Witness ==
    /\ ctl_hist # << >>
    /\ LastCall.op = "SetIsPlayAudio" /\ ~LastCall.arg
    /\ LastCall.before = CONTROL_FLAG_ALL_SELECTED
    /\ flags = CONTROL_FLAG_DECODE_AUDIO + CONTROL_FLAG_DECODE_DATA

(***************************************************************************)
(* Further properties of the FIG parser, under SpecFIC                     *)
(***************************************************************************)
\* the handler calls ProcessFIG made for the FIBs of the group
Dispatched ==
    { d \in UNION { { fic_out[k].dispatched[j] : j \in 1..Len(fic_out[k].dispatched) } :
                    k \in 1..Len(fic_out) } : TRUE }

\* C33 as stated: the descriptor byte that ProcessFIG_Type_0 reads is a
\* byte of the FIG (the FIG has at least one data byte), and the field
\* length it gives to the extension handler is no larger than the data
\* length the FIG header declared; so a type-0 FIG of data length 0 reads
\* nothing outside itself and hands no wrapped-around length on.
C33_FieldLengthWithinFig ==
    fic_pc = "done" =>
        \A d \in Dispatched :
            d.type = 0 =>
                /\ d.len >= 1
                /\ Type_0_nb_field_bytes(d.len) <= d.len
                /\ d.at + 1 + d.len <= FIG_N

\* a type-0 FIG of data length 0 in front of the byte 0x04: the handler of
\* FIG 0/4 is called with a field of 255 bytes and decodes 85 components
C33_Wrapped ==
    /\ fic_pc = "done"
    /\ \E k \in 1..Len(fic_out) :
         /\ \E j \in 1..Len(fic_out[k].dispatched) :
              LET d == fic_out[k].dispatched[j]
              IN  d.type = 0 /\ d.len = 0 /\ d.at = 0 /\ d.ext = 4
         /\ Cardinality({ j \in 1..Len(fic_out[k].log) :
                            fic_out[k].log[j].at = 0 /\ fic_out[k].log[j].fig = "0/4" }) = 85

\* mem with every byte outside the field [buf, buf + N) set to fill
OutsideField(mem, buf, N, fill) ==
    [k \in 1..Len(mem) |->
        IF k - 1 >= buf /\ k - 1 < buf + N THEN mem[k] ELSE fill]

\* the handler of the type-0 FIG of call d of the FIB at fib_buf reads no
\* byte outside the field it is given: what it logs stays the same when
\* every byte outside the field is overwritten
ReadsOnlyField(fib_buf, d) ==
    LET fig_buf == fib_buf + d.at + 1
        N == Type_0_nb_field_bytes(d.len)
    IN  \A fill \in {0, 255} :
            ProcessFIG_Type_0(OutsideField(decoded_bytes, fig_buf, N + 1, fill),
                              fig_buf, d.len)
            = ProcessFIG_Type_0(decoded_bytes, fig_buf, d.len)

\* the type-0 FIGs of extension ext with at least the descriptor byte, of
\* all parsed FIBs, read no byte outside their field
ExtensionReadsOnlyField(ext) ==
    \A k \in 1..Len(fic_out) :
        \A j \in 1..Len(fic_out[k].dispatched) :
            LET d == fic_out[k].dispatched[j]
            IN  (d.type = 0 /\ d.ext = ext /\ d.len >= 1)
                => ReadsOnlyField(fic_parsed[k] * nb_fib_bytes, d)

\* C34 as stated: in FIG 0/13 every byte read for a user-application entry
\* (its 2-byte header and its data bytes) lies inside the FIG field
\* [0,N): an entry is accepted only if the bytes remaining after the
\* service header and the preceding entries are enough to hold it.
C34_AppsInsideField ==
    fic_pc = "done" => ExtensionReadsOnlyField(13)

\* a FIG 0/13 with a 3-byte field (service id and one declared user
\* application): the application header is read from the two bytes after
\* the field (0xFF 0x00) and the entry is accepted
C34_AppReadPastField ==
    /\ fic_pc = "done"
    /\ \E k \in 1..Len(fic_out) :
         /\ \E j \in 1..Len(fic_out[k].dispatched) :
              LET d == fic_out[k].dispatched[j]
              IN  d.type = 0 /\ d.ext = 13 /\ d.len = 4 /\ d.at = 0
         /\ \E n \in 1..Len(fic_out[k].log) :
              LET l == fic_out[k].log[n]
              IN  /\ l.at = 0 /\ l.kind = "msg" /\ l.fig = "0/13"
                  /\ l.vals[Len(l.vals) - 1] = 255 * 8
                  /\ l.vals[Len(l.vals)] = 0

\* C35 as stated: in FIG 0/21 every byte read lies inside the FIG field
\* [0,N): a block whose declared frequency-information length exceeds the
\* bytes remaining in the field, or a frequency list whose declared length
\* exceeds the bytes remaining in its block, is rejected before any of its
\* bytes past the limit is read.
C35_ListsInsideField ==
    fic_pc = "done" => ExtensionReadsOnlyField(21)

\* the FIB whose first FIG is a FIG 0/21 of data length len logged, for
\* that FIG, an RM 8 frequency entry with the id and the frequency byte
LoggedFrequency(len, id, freq) ==
    /\ fic_pc = "done"
    /\ \E k \in 1..Len(fic_out) :
         /\ \E j \in 1..Len(fic_out[k].dispatched) :
              LET d == fic_out[k].dispatched[j]
              IN  d.type = 0 /\ d.ext = 21 /\ d.len = len /\ d.at = 0
         /\ \E n \in 1..Len(fic_out[k].log) :
              LET l == fic_out[k].log[n]
              IN  /\ l.at = 0 /\ l.kind = "msg" /\ l.fig = "0/21"
                  /\ l.vals = << 0, 0, 0, 8, 0, id, 0, 1, freq >>

\* a FIG 0/21 with a 2-byte field whose block header declares 4 bytes of
\* lists: the list header and the frequency are read from the four bytes
\* after the field (E0 34 81 55) and logged
C35_BlockReadPastField == LoggedFrequency(3, 224 * 256 + 52, 85)

\* a FIG 0/21 with a 5-byte field whose block declares 3 bytes of lists and
\* whose list declares 1 frequency byte: the frequency is read from the
\* byte after the field (0xFF) and logged
C35_ListReadPastField == LoggedFrequency(6, 18 * 256 + 52, 255)

\* one pass of loop ctx from cursor at either ends the loop (its condition
\* is false, or the body returns) or leaves the cursor at least one byte
\* further
Advances(ctx, at, acc) ==
    LET n == LoopStep(ctx, LoopState(at, acc))
    IN  n.run => n.at >= at + 1

\* the loop of the handler of extension ext
HandlerLoop(ext) ==
    CASE ext = 1 -> "Ext_1" [] ext = 2 -> "Ext_2" [] ext = 6 -> "Ext_6"
      [] ext = 8 -> "Ext_8" [] ext = 13 -> "Ext_13" [] ext = 17 -> "Ext_17"
      [] ext = 21 -> "Ext_21" [] ext = 24 -> "Ext_24"

\* the loops that run on the field (buf, N) of a FIG of extension ext: the
\* loop of the handler; for FIG 0/9 the loop over the extended field; for
\* FIG 0/21 also the loop over the lists of the block at offset at
HandlerContext(ext, buf, N, pd) ==
    IF ext = 9
    THEN [loop |-> "Ext_9", mem |-> decoded_bytes, extended_buf |-> buf + 3,
          nb_ext_bytes |-> N - 3, head |-> << >>]
    ELSE [loop |-> HandlerLoop(ext), mem |-> decoded_bytes, buf |-> buf,
          N |-> N, pd |-> pd]

ListsContext(buf, at) ==
    [loop |-> "Ext_21_Lists", mem |-> decoded_bytes, fi_lists_buf |-> buf + at + 2,
     nb_fi_list_bytes |-> Bits(Rd(decoded_bytes, buf + at + 1), 4, 0),
     Rfa0 |-> 0, curr_block |-> 0]

\* the handler loops of the type-0 FIG of call d of the FIB at fib_buf end
\* after no more iterations than the field has bytes, and each pass from
\* any cursor in the field ends the loop or advances
HandlerTerminates(fib_buf, d) ==
    LET buf == fib_buf + d.at + 2
        N == Type_0_nb_field_bytes(d.len)
        pd == Bits(Rd(decoded_bytes, fib_buf + d.at + 1), 5, 5)
        ctx == HandlerContext(d.ext, buf, N, pd)
        end == RunLoop(ctx, 0, << >>)
    IN  /\ ~end.run
        /\ end.k <= N
        /\ \A at \in 0..(N - 1) : Advances(ctx, at, << >>)
        /\ d.ext = 21 =>
              \A at \in 0..(N - 1) :
                  LET lists == ListsContext(buf, at)
                  IN  /\ ~RunLoop(lists, 0, << >>).run
                      /\ \A c \in 0..(lists.nb_fi_list_bytes - 1) :
                             Advances(lists, c, << >>)

\* C36: parsing of any 30-byte FIB payload terminates: every loop of
\* ProcessFIG and of the FIG 0 extension handlers (0/1, 0/2, 0/6, 0/8, 0/9,
\* 0/13, 0/17, 0/21, 0/24) either returns or advances its cursor by at
\* least one byte on each iteration, so ProcessFIG dispatches at most 30
\* FIGs per FIB.
C36_ParseTerminates ==
    fic_pc = "done" =>
        \A k \in 1..Len(fic_out) :
            LET fib_buf == fic_parsed[k] * nb_fib_bytes
                r == fic_out[k]
            IN  /\ r.stop # "run"
                /\ Len(r.dispatched) <= FIG_N
                /\ \A at \in 0..(FIG_N - 1) :
                      Advances([loop |-> "ProcessFIG", mem |-> decoded_bytes,
                                buf |-> fib_buf],
                               at, FigResult(<< >>, << >>, "run"))
                /\ \A j \in 1..Len(r.dispatched) :
                      (r.dispatched[j].type = 0
                         /\ r.dispatched[j].ext \in LoopExtensions)
                      => HandlerTerminates(fib_buf, r.dispatched[j])

\* a group was parsed whose first payload is thirty FIG headers 0x00, with
\* thirty handler calls, and whose second is one FIG 0/6 with a field of
\* 28 zeros, whose handler loop made fourteen passes of two bytes
C36_Witness ==
    /\ fic_pc = "done"
    /\ fic_parsed = << 0, 1, 2 >>
    /\ Len(fic_out[1].dispatched) = 30
    /\ Len(fic_out[2].dispatched) = 1
    /\ fic_out[2].dispatched[1].ext = 6
    /\ LET end == RunLoop(HandlerContext(6, nb_fib_bytes + 2, 28, 0), 0, << >>)
       IN  ~end.run /\ end.k = 14 /\ end.at = 28

(***************************************************************************)
(* Further properties of the channel, under SpecChannel (C37) and          *)
(* SpecChannelCodec (C38)                                                  *)
(***************************************************************************)
\* the decoder follows the latest header, and PCM is emitted only with the
\* control set and a decoder
DecoderFollowsHeader ==
    /\ m_super_frame_header # << >> =>
          /\ m_aac_audio_decoder # << >>
          /\ m_aac_audio_decoder[1] = AudioParams(m_super_frame_header[1])
    /\ m_super_frame_header = << >> =>
          /\ m_aac_audio_decoder = << >>
          /\ Outcomes(chan_out, "audio") = {}
    /\ Outcomes(chan_out, "audio") # {} =>
          GetIsDecodeAudio(flags) /\ m_aac_audio_decoder # << >>

\* an access unit whose decoding failed emits no PCM
PcmOnlyOfDecodedUnit ==
    \A is_error \in BOOLEAN :
        (OnAccessUnit(is_error) /\ UNCHANGED ChanRest)
        => (Outcomes(chan_out', "audio") # {}
              => /\ ~is_error
                 /\ GetIsDecodeAudio(flags)
                 /\ m_aac_audio_decoder # << >>)

C38_CodecErrorSinceUnitZero ==
    (GetIsDecodeAudio(flags) /\ m_aac_audio_decoder # << >> /\ codec_window # "none")
    => (m_is_codec_error <=> codec_window = "error")

\* access unit 0 failed to decode and access unit 1 was decoded after it:
\* the flag is still set
C38_Witness ==
    /\ GetIsDecodeAudio(flags) /\ m_aac_audio_decoder # << >>
    /\ codec_window = "error"
    /\ sf_stage = "au" /\ sf_au >= 2
    /\ Outcomes(chan_out, "audio") # {}
    /\ m_is_codec_error

(***************************************************************************)
(* The identifier decoders, under SpecIdentifiers                          *)
(***************************************************************************)
\* the bytes a short and a long service identifier are packed into
PackShortForm(sid) ==
    << sid[1] * 16 + sid[2] \div 256, sid[2] % 256 >>

PackLongForm(sid) ==
    << sid[3], sid[1] * 16 + sid[2] \div 65536, (sid[2] \div 256) % 256,
       sid[2] % 256 >>

\* C39: ServiceIdentifier decoding is lossless on its defined fields: the
\* short form maps 2 bytes to (country_id = 4 bits, service_reference = 12
\* bits, ecc = 0) and the long form maps 4 bytes to (ecc = 8 bits,
\* country_id = 4 bits, service_reference = 20 bits), so that re-packing
\* the decoded fields reproduces the input bytes and distinct inputs give
\* distinct identifiers; EnsembleIdentifier::ProcessBuffer(b) equals
\* ProcessU16(b[0]*256 + b[1]).
C39_IdentifiersLossless ==
    fic_pc = "done" =>
        /\ fic_out.short[1] \in 0..15
        /\ fic_out.short[2] \in 0..4095
        /\ fic_out.short[3] = 0
        /\ PackShortForm(fic_out.short) = SubSeq(decoded_bytes, 1, 2)
        /\ fic_out.long[1] \in 0..15
        /\ fic_out.long[2] \in 0..(Pow2(20) - 1)
        /\ fic_out.long[3] \in 0..255
        /\ PackLongForm(fic_out.long) = decoded_bytes
        /\ \A other \in IdBuffers :
              /\ SubSeq(other, 1, 2) # SubSeq(decoded_bytes, 1, 2)
                   => ServiceIdentifier_ProcessShortForm(other, 0) # fic_out.short
              /\ other # decoded_bytes
                   => ServiceIdentifier_ProcessLongForm(other, 0) # fic_out.long
        /\ fic_out.buffer = fic_out.u16

\* the bytes AB AB FF 10 were decoded: every field of the long form is
\* non-zero and the reference has bits above the low 16
C39_Witness ==
    /\ fic_pc = "done"
    /\ decoded_bytes = << 171, 171, 255, 16 >>
    /\ fic_out.short = << 10, 11 * 256 + 171, 0 >>
    /\ fic_out.long = << 10, 11 * 65536 + 255 * 256 + 16, 171 >>
    /\ fic_out.buffer = << 10, 11 * 256 + 171 >>

====
